---- MODULE Spec2Model ----
(***************************************************************************)
(* Optimus-OS core: the process virtual machine (ProcessVM), the process   *)
(* registry (ProcessManager) and the glue between them.                    *)
(*                                                                         *)
(* Strings are sequences of character codes.  A value of the evaluation    *)
(* stack is a JavaScript number or undefined, written as a record:         *)
(*   [k |-> "num", v |-> n]   the integer n                                *)
(*   [k |-> "nan", v |-> 0]   NaN                                          *)
(*   [k |-> "undef", v |-> 0] undefined (a pop of the empty stack)         *)
(*   [k |-> "other", v |-> 0] a number that is no integer of the model     *)
(*                            (a fraction, an infinity)                    *)
(***************************************************************************)
EXTENDS Integers, Sequences, FiniteSets, Bags, TLC

\* ------------------------------------------------------------------ bounds
MaxProcs == 2
MaxCycles == 2
MaxListeners == 2

\* --------------------------------------------------------- program constants
MemSize == 65536
InitialFp == 60000
HeapGap == 1024
FirstPid == 100
UserMemoryUsage == 64
SystemMemoryUsage == 16

\* ------------------------------------------------------------------ values
Num(n) == [k |-> "num", v |-> n]
NaN == [k |-> "nan", v |-> 0]
Undef == [k |-> "undef", v |-> 0]
Other == [k |-> "other", v |-> 0]
IsNum(x) == x.k = "num"

Pow2(n) == 2 ^ n

RECURSIVE Log2Floor(_)
Log2Floor(m) == IF m <= 1 THEN 0 ELSE 1 + Log2Floor(m \div 2)

Abs(n) == IF n < 0 THEN 0 - n ELSE n

\* JavaScript a + b, a - b, a * b on numbers (undefined converts to NaN).
JsArith(op, a, b) ==
    IF a.k = "num" /\ b.k = "num"
    THEN CASE op = "ADD" -> Num(a.v + b.v)
           [] op = "SUB" -> Num(a.v - b.v)
           [] op = "MUL" -> Num(a.v * b.v)
    ELSE IF a.k \in {"nan", "undef"} \/ b.k \in {"nan", "undef"} THEN NaN
    ELSE Other

\* JavaScript a / b for b # 0: an integer when the division is exact.
JsDiv(a, b) ==
    IF a.k = "num" /\ b.k = "num"
    THEN IF a.v % b.v = 0 THEN Num(a.v \div b.v) ELSE Other
    ELSE IF a.k \in {"nan", "undef"} \/ b.k \in {"nan", "undef"} THEN NaN
    ELSE Other

\* JavaScript a % b: the remainder takes the sign of the dividend; x % 0 is NaN.
JsMod(a, b) ==
    IF a.k = "num" /\ b.k = "num"
    THEN IF b.v = 0 THEN NaN
         ELSE IF a.v >= 0 THEN Num(a.v % Abs(b.v))
         ELSE Num(0 - ((0 - a.v) % Abs(b.v)))
    ELSE IF a.k \in {"nan", "undef"} \/ b.k \in {"nan", "undef"} THEN NaN
    ELSE Other

\* JavaScript a === b.
JsStrictEq(a, b) ==
    CASE a.k = "num" /\ b.k = "num" -> a.v = b.v
      [] a.k = "undef" /\ b.k = "undef" -> TRUE
      [] OTHER -> FALSE

\* JavaScript a < b (FALSE as soon as one side is NaN or undefined).
JsLess(a, b) == a.k = "num" /\ b.k = "num" /\ a.v < b.v

\* ------------------------------------------------- IEEE 754 single precision
\* The four little-endian bytes DataView.setFloat32(addr, val, true) writes.
F32Bytes(val) ==
    IF val.k \in {"nan", "undef"} THEN <<0, 0, 192, 127>>
    ELSE IF val.v = 0 THEN <<0, 0, 0, 0>>
    ELSE
      LET s == IF val.v < 0 THEN 1 ELSE 0
          m == Abs(val.v)
          e0 == Log2Floor(m)
          \* 24 significant bits, round half to even
          q0 == IF e0 <= 23 THEN m * Pow2(23 - e0) ELSE m \div Pow2(e0 - 23)
          r0 == IF e0 <= 23 THEN 0 ELSE m % Pow2(e0 - 23)
          half == IF e0 <= 23 THEN 1 ELSE Pow2(e0 - 24)
          up == e0 > 23 /\ (r0 > half \/ (r0 = half /\ q0 % 2 = 1))
          q1 == IF up THEN q0 + 1 ELSE q0
          e == IF q1 = Pow2(24) THEN e0 + 1 ELSE e0
          q == IF q1 = Pow2(24) THEN Pow2(23) ELSE q1
          frac == q - Pow2(23)
          biased == e + 127
      IN  << frac % 256,
             (frac \div 256) % 256,
             (biased % 2) * 128 + frac \div 65536,
             s * 128 + biased \div 2 >>

\* The number DataView.getFloat32 reads from four little-endian bytes.
F32Value(b) ==
    LET s == b[4] \div 128
        biased == (b[4] % 128) * 2 + b[3] \div 128
        frac == (b[3] % 128) * 65536 + b[2] * 256 + b[1]
        e == biased - 127
        mant == Pow2(23) + frac
        sign(n) == IF s = 1 THEN 0 - n ELSE n
    IN  IF biased = 0 THEN (IF frac = 0 THEN Num(0) ELSE Other)
        ELSE IF biased = 255 THEN (IF frac = 0 THEN Other ELSE NaN)
        ELSE IF e < 0 \/ e > 30 THEN Other
        ELSE IF e >= 23 THEN Num(sign(mant * Pow2(e - 23)))
        ELSE IF mant % Pow2(23 - e) = 0 THEN Num(sign(mant \div Pow2(23 - e)))
        ELSE Other

\* ------------------------------------------------- IEEE 754 double precision
\* Byte j (0 = lowest) of the 52-bit fraction field holding x left-aligned,
\* where x < 2^e are the bits below the leading one.
F64FracByte(x, e, j) ==
    LET k == 52 - e - 8 * j
    IN  IF k >= 8 THEN 0
        ELSE IF k >= 0 THEN (x * Pow2(k)) % 256
        ELSE (x \div Pow2(0 - k)) % 256

\* The eight little-endian bytes DataView.setFloat64(addr, val, true) writes
\* (every integer of the model is exact in double precision).
F64Bytes(val) ==
    IF val.k \in {"nan", "undef"} THEN <<0, 0, 0, 0, 0, 0, 248, 127>>
    ELSE IF val.v = 0 THEN <<0, 0, 0, 0, 0, 0, 0, 0>>
    ELSE
      LET s == IF val.v < 0 THEN 1 ELSE 0
          m == Abs(val.v)
          e == Log2Floor(m)
          x == m - Pow2(e)
          biased == e + 1023
          top == IF e >= 4 THEN x \div Pow2(e - 4) ELSE x * Pow2(4 - e)
      IN  << F64FracByte(x, e, 0), F64FracByte(x, e, 1), F64FracByte(x, e, 2),
             F64FracByte(x, e, 3), F64FracByte(x, e, 4), F64FracByte(x, e, 5),
             (biased % 16) * 16 + top,
             s * 128 + biased \div 16 >>

\* The number DataView.getFloat64 reads from eight little-endian bytes.
F64Value(b) ==
    LET s == b[8] \div 128
        biased == (b[8] % 128) * 16 + b[7] \div 16
        e == biased - 1023
        fracZero == b[7] % 16 = 0 /\ \A j \in 1..6 : b[j] = 0
        sign(n) == IF s = 1 THEN 0 - n ELSE n
        \* the top e bits of the fraction, for e <= 28
        hi == (b[7] % 16) * Pow2(24) + b[6] * 65536 + b[5] * 256 + b[4]
        lowZero == b[1] = 0 /\ b[2] = 0 /\ b[3] = 0
    IN  IF biased = 0 THEN (IF fracZero THEN Num(0) ELSE Other)
        ELSE IF biased = 2047 THEN (IF fracZero THEN Other ELSE NaN)
        ELSE IF e < 0 \/ e > 28 \/ ~lowZero THEN Other
        ELSE IF hi % Pow2(28 - e) = 0
             THEN Num(sign(Pow2(e) + hi \div Pow2(28 - e)))
        ELSE Other

\* ------------------------------------------------------------------ memory
\* this.memory: the bytes that are not zero, by address (a Uint8Array of
\* MemSize bytes, all zero at construction).
EmptyMemory == << >>

MemGet(mem, a) == IF a \in DOMAIN mem THEN mem[a] ELSE 0

MemPut(mem, a, b) ==
    [x \in (IF b = 0 THEN DOMAIN mem \ {a} ELSE DOMAIN mem \cup {a}) |->
        IF x = a THEN b ELSE mem[x]]

RECURSIVE WriteBytes(_, _, _)
WriteBytes(mem, a, bytes) ==
    IF bytes = << >> THEN mem
    ELSE WriteBytes(MemPut(mem, a, Head(bytes)), a + 1, Tail(bytes))

ReadBytes(mem, a, n) == [j \in 1..n |-> MemGet(mem, a + j - 1)]

\* DataView's ToIndex(addr): NaN and undefined become 0.
ToIndex(addr) == IF addr.k = "num" THEN addr.v ELSE 0

\* addr < 0 || addr >= this.memory.length - width  (every comparison with NaN
\* or undefined is false)
OutOfBounds(addr, width) ==
    addr.k = "num" /\ (addr.v < 0 \/ addr.v >= MemSize - width)

Thrown(msg) == [thrown |-> TRUE, msg |-> msg]
NoThrow == [thrown |-> FALSE, msg |-> << >>]

\* setMemory with the bounds check left out.
setMemoryUnchecked(mem, addr, val) ==
    [mem |-> WriteBytes(mem, ToIndex(addr), F32Bytes(val)), exc |-> NoThrow]

setMemory(mem, addr, val) ==
    IF OutOfBounds(addr, 4)
    THEN [mem |-> mem, exc |-> Thrown(<<"Segfault: Write", addr>>)]
    ELSE [mem |-> WriteBytes(mem, ToIndex(addr), F32Bytes(val)), exc |-> NoThrow]

setMemory64(mem, addr, val) ==
    IF OutOfBounds(addr, 8)
    THEN [mem |-> mem, exc |-> Thrown(<<"Segfault: Write", addr>>)]
    ELSE [mem |-> WriteBytes(mem, ToIndex(addr), F64Bytes(val)), exc |-> NoThrow]

\* this.memory[addr] = val on a Uint8Array: val modulo 256, NaN as 0; a
\* write at an index that is no integer is dropped.
setMemoryByte(mem, addr, val) ==
    IF OutOfBounds(addr, 0)
    THEN [mem |-> mem, exc |-> Thrown(<<"Segfault: Write Byte", addr>>)]
    ELSE [mem |-> IF IsNum(addr)
                  THEN MemPut(mem, addr.v, IF IsNum(val) THEN val.v % 256 ELSE 0)
                  ELSE mem,
          exc |-> NoThrow]

getMemory(mem, addr) ==
    IF OutOfBounds(addr, 4)
    THEN [val |-> Undef, exc |-> Thrown(<<"Segfault: Read", addr>>)]
    ELSE [val |-> F32Value(ReadBytes(mem, ToIndex(addr), 4)), exc |-> NoThrow]

getMemory64(mem, addr) ==
    IF OutOfBounds(addr, 8)
    THEN [val |-> Undef, exc |-> Thrown(<<"Segfault: Read", addr>>)]
    ELSE [val |-> F64Value(ReadBytes(mem, ToIndex(addr), 8)), exc |-> NoThrow]

\* The zero-terminated string at addr.  Below address 0 this.memory[i] is
\* undefined, which is not 0 and appends the character of code 0.
RECURSIVE ReadFrom(_, _)
ReadFrom(mem, i) ==
    IF i >= MemSize THEN << >>
    ELSE IF i < 0 THEN <<0>> \o ReadFrom(mem, i + 1)
    ELSE IF MemGet(mem, i) = 0 THEN << >>
    ELSE <<MemGet(mem, i)>> \o ReadFrom(mem, i + 1)

readString(mem, addr) == IF IsNum(addr) THEN ReadFrom(mem, addr.v) ELSE << >>

\* ----------------------------------------------------------------- strings
IsDigit(c) == c >= 48 /\ c <= 57
IsSpace(c) == c \in {9, 10, 11, 12, 13, 32}

RECURSIVE DecDigits(_)
DecDigits(n) == IF n < 10 THEN <<48 + n>> ELSE DecDigits(n \div 10) \o <<48 + (n % 10)>>

HexDigit(d) == IF d < 10 THEN 48 + d ELSE 87 + d

RECURSIVE HexDigits(_)
HexDigits(n) ==
    IF n < 16 THEN <<HexDigit(n)>> ELSE HexDigits(n \div 16) \o <<HexDigit(n % 16)>>

NaNText == <<78, 97, 78>>

\* Number.prototype.toString(radix) of Math.floor(val), val a number.
IntText(val, radix) ==
    IF ~IsNum(val) THEN NaNText
    ELSE LET digits(n) == IF radix = 16 THEN HexDigits(n) ELSE DecDigits(n)
         IN  IF val.v < 0 THEN <<45>> \o digits(0 - val.v) ELSE digits(val.v)

\* val.toFixed(precision), val a number.
FixedText(val, precision) ==
    IF ~IsNum(val) THEN NaNText
    ELSE IntText(val, 10) \o
         (IF precision = 0 THEN << >> ELSE <<46>> \o [j \in 1..precision |-> 48])

\* The value of the decimal digits s (a sequence of digit codes).
RECURSIVE DigitsValue(_)
DigitsValue(s) ==
    IF s = << >> THEN 0
    ELSE 10 * DigitsValue(SubSeq(s, 1, Len(s) - 1)) + (s[Len(s)] - 48)

\* The length of the longest prefix of s[i..] made of characters of `set`.
RECURSIVE Run(_, _, _)
Run(s, i, set) ==
    IF i <= Len(s) /\ s[i] \in set THEN 1 + Run(s, i + 1, set) ELSE 0

DigitSet == 48..57

\* parseInt(raw): an optional sign and the decimal digits that follow, NaN
\* when there is none (the lines of the model hold no "0x" prefix).
ParseInt(raw) ==
    LET neg == Len(raw) >= 1 /\ raw[1] = 45
        start == IF Len(raw) >= 1 /\ raw[1] \in {43, 45} THEN 2 ELSE 1
        n == Run(raw, start, DigitSet)
        mag == DigitsValue(SubSeq(raw, start, start + n - 1))
    IN  IF n = 0 THEN NaN ELSE Num(IF neg THEN 0 - mag ELSE mag)

\* parseFloat(raw): as parseInt when the digits are followed by no fraction
\* and no exponent; a token with either is a number outside the integers.
ParseFloat(raw) ==
    LET start == IF Len(raw) >= 1 /\ raw[1] \in {43, 45} THEN 2 ELSE 1
        n == Run(raw, start, DigitSet)
        next == start + n
        more == next <= Len(raw) /\ raw[next] \in {46, 69, 101}
    IN  IF more THEN Other ELSE ParseInt(raw)

\* x || 0 on a number: 0 and NaN are falsy.
OrZero(x) == IF x.k = "nan" THEN Num(0) ELSE x

\* input.trim()
RECURSIVE TrimLeft(_)
TrimLeft(s) == IF s # << >> /\ IsSpace(Head(s)) THEN TrimLeft(Tail(s)) ELSE s

RECURSIVE TrimRight(_)
TrimRight(s) ==
    IF s # << >> /\ IsSpace(s[Len(s)]) THEN TrimRight(SubSeq(s, 1, Len(s) - 1)) ELSE s

Trim(s) == TrimRight(TrimLeft(s))

\* s.split(/\s+/): the empty string splits into one empty token.
RECURSIVE SplitWs(_, _)
SplitWs(s, cur) ==
    IF s = << >> THEN <<cur>>
    ELSE IF IsSpace(Head(s)) THEN <<cur>> \o SplitWs(TrimLeft(s), << >>)
    ELSE SplitWs(Tail(s), cur \o <<Head(s)>>)

Tokens(input) == SplitWs(Trim(input), << >>)

RECURSIVE Reverse(_)
Reverse(s) == IF s = << >> THEN << >> ELSE Reverse(Tail(s)) \o <<Head(s)>>

\* ------------------------------------------------------------ instructions
Ins(op, arg) == [op |-> op, arg |-> arg]

\* Array.prototype.pop: undefined on the empty stack.
Top(st) == IF st = << >> THEN Undef ELSE st[Len(st)]
Rest(st) == IF st = << >> THEN << >> ELSE SubSeq(st, 1, Len(st) - 1)
Top2(st) == Top(Rest(st))
Rest2(st) == Rest(Rest(st))

NoScan == [set |-> FALSE, fmt |-> << >>, args |-> << >>]

\* A write to the stdout sink: the text of a PRINT, or the diagnostic
\* "\nSegmentation Fault (Core Dumped): <reason>\n".
PrintOut(text) == [segv |-> FALSE, reason |-> << >>, text |-> text]
SegvOut(reason) == [segv |-> TRUE, reason |-> reason, text |-> << >>]

\* this.stdout(s)
Write(vm, s) == IF vm.stdout = "discard" THEN vm ELSE [vm EXCEPT !.out = @ \o <<s>>]

\* new ProcessVM(pid, code, data, stdout); stdout is the host's terminal
\* writer, or () => {} ("discard"), and out holds what the terminal was sent.
NewVM(pid, code, data, stdout) ==
    [pid |-> pid,
     code |-> code,
     stdout |-> stdout,
     memory |-> WriteBytes(EmptyMemory, 0, data),
     dataSegmentSize |-> Len(data),
     heapPointer |-> Num(((Len(data) + HeapGap + 3) \div 4) * 4),
     fp |-> InitialFp,
     stack |-> << >>,
     pc |-> 0,
     state |-> "RUNNING",
     scanContext |-> NoScan,
     out |-> << >>]

\* ------------------------------------------------------------------- PRINT
SpecChars == {45, 43, 32, 35, 46} \cup DigitSet

\* spec.match(/\.(\d+)/): the digits after the first dot that has some.
RECURSIVE Precision(_, _)
Precision(spec, j) ==
    IF j > Len(spec) THEN 6
    ELSE IF spec[j] = 46 /\ Run(spec, j + 1, DigitSet) > 0
         THEN DigitsValue(SubSeq(spec, j + 1, j + Run(spec, j + 1, DigitSet)))
    ELSE Precision(spec, j + 1)

\* "%{spec}" (the template of the missing-argument arm has no "$")
MissingArgText == <<37, 123, 115, 112, 101, 99, 125>>

PrintPart(mem, spec, type, val) ==
    IF val.k = "undef" THEN MissingArgText \o <<type>>
    ELSE CASE type = 100 -> IntText(val, 10)
           [] type = 102 -> FixedText(val, Precision(spec, 1))
           [] type = 120 -> IntText(val, 16)
           [] type = 99 -> <<IF IsNum(val) THEN val.v % 65536 ELSE 0>>
           [] type = 115 -> readString(mem, val)
           [] OTHER -> <<37>> \o spec \o <<type>>

RECURSIVE PrintLoop(_, _, _, _, _)
PrintLoop(mem, fmt, args, i, argIndex) ==
    IF i > Len(fmt) THEN << >>
    ELSE IF fmt[i] # 37 THEN <<fmt[i]>> \o PrintLoop(mem, fmt, args, i + 1, argIndex)
    ELSE LET n == Run(fmt, i + 1, SpecChars)
             spec == SubSeq(fmt, i + 1, i + n)
             t == i + 1 + n
             val == IF argIndex <= Len(args) THEN args[argIndex] ELSE Undef
         IN  IF t > Len(fmt) THEN << >>
             ELSE PrintPart(mem, spec, fmt[t], val)
                    \o PrintLoop(mem, fmt, args, t + 1, argIndex + 1)

\* Pops n values: the popped values in pop order, and what is left.
RECURSIVE PopN(_, _)
PopN(st, n) ==
    IF n = 0 THEN [vals |-> << >>, rest |-> st]
    ELSE LET r == PopN(Rest(st), n - 1)
         IN  [vals |-> <<Top(st)>> \o r.vals, rest |-> r.rest]

\* -------------------------------------------------------------------- math
RECURSIVE IntSqrt(_, _)
IntSqrt(n, r) == IF (r + 1) * (r + 1) > n THEN r ELSE IntSqrt(n, r + 1)

JsMath(op, x) ==
    IF x.k \in {"nan", "undef"} THEN NaN
    ELSE IF x.k = "other" THEN Other
    ELSE CASE op \in {"SIN", "TAN"} -> IF x.v = 0 THEN Num(0) ELSE Other
           [] op = "COS" -> IF x.v = 0 THEN Num(1) ELSE Other
           [] op = "ABS" -> Num(Abs(x.v))
           [] op = "SQRT" ->
                IF x.v < 0 THEN NaN
                ELSE IF IntSqrt(x.v, 0) * IntSqrt(x.v, 0) = x.v THEN Num(IntSqrt(x.v, 0))
                ELSE Other

JsPow(base, exp) ==
    IF exp.k = "num" /\ exp.v = 0 THEN Num(1)
    ELSE IF base.k \in {"nan", "undef"} \/ exp.k \in {"nan", "undef"} THEN NaN
    ELSE IF base.k = "num" /\ exp.k = "num" /\ exp.v > 0 THEN Num(base.v ^ exp.v)
    ELSE Other

\* ------------------------------------------------------ executeInstruction
Done(vm) == [vm |-> vm, exc |-> NoThrow]
Raise(vm, msg) == [vm |-> vm, exc |-> Thrown(msg)]

Push(vm, st, val) == Done([vm EXCEPT !.stack = st \o <<val>>])

\* A store through setMemory or setMemory64: the value is already popped
\* when the bounds check throws.
Store(vm, st, r) ==
    [vm |-> [vm EXCEPT !.stack = st, !.memory = r.mem], exc |-> r.exc]

\* A load through getMemory or getMemory64: nothing is pushed on a throw.
Load(vm, st, r) ==
    IF r.exc.thrown THEN [vm |-> [vm EXCEPT !.stack = st], exc |-> r.exc]
    ELSE Push(vm, st, r.val)

Local(vm, instr) == Num(vm.fp + instr.arg)

ExecPrint(vm, instr) ==
    LET fmt == readString(vm.memory, Top(vm.stack))
        p == PopN(Rest(vm.stack), instr.arg)
        text == PrintLoop(vm.memory, fmt, Reverse(p.vals), 1, 1)
    IN  Done(Write([vm EXCEPT !.stack = p.rest], PrintOut(text)))

\* SCANF without args.reverse(): the addresses stay in the order they were popped.
ExecScanfPopOrder(vm, instr) ==
    LET fmt == readString(vm.memory, Top(vm.stack))
        p == PopN(Rest(vm.stack), instr.arg)
    IN  Done([vm EXCEPT !.stack = p.rest,
                        !.state = "WAITING_INPUT",
                        !.scanContext = [set |-> TRUE, fmt |-> fmt, args |-> p.vals]])

ExecScanf(vm, instr) ==
    LET fmt == readString(vm.memory, Top(vm.stack))
        p == PopN(Rest(vm.stack), instr.arg)
    IN  Done([vm EXCEPT !.stack = p.rest,
                        !.state = "WAITING_INPUT",
                        !.scanContext = [set |-> TRUE, fmt |-> fmt,
                                         args |-> Reverse(p.vals)]])

executeInstruction(vm, instr) ==
    LET st == vm.stack
        b == Top(st)
        a == Top2(st)
        op == instr.op
    IN  CASE op = "HALT" -> Done([vm EXCEPT !.state = "TERMINATED"])
          [] op = "LIT" -> Push(vm, st, Num(instr.arg))
          [] op = "POP" -> Done([vm EXCEPT !.stack = Rest(st)])
          [] op \in {"ADD", "SUB", "MUL"} -> Push(vm, Rest2(st), JsArith(op, a, b))
          [] op = "DIV" ->
               IF b = Num(0)
               THEN Raise([vm EXCEPT !.stack = Rest2(st)], <<"Divide by zero">>)
               ELSE Push(vm, Rest2(st), JsDiv(a, b))
          [] op = "MOD" -> Push(vm, Rest2(st), JsMod(a, b))
          [] op = "EQ" -> Push(vm, Rest2(st), Num(IF JsStrictEq(b, a) THEN 1 ELSE 0))
          [] op = "NEQ" -> Push(vm, Rest2(st), Num(IF JsStrictEq(b, a) THEN 0 ELSE 1))
          [] op = "LT" -> Push(vm, Rest2(st), Num(IF JsLess(a, b) THEN 1 ELSE 0))
          [] op = "GT" -> Push(vm, Rest2(st), Num(IF JsLess(b, a) THEN 1 ELSE 0))
          [] op = "JMP" -> Done([vm EXCEPT !.pc = instr.arg])
          [] op = "JZ" ->
               Done([vm EXCEPT !.stack = Rest(st),
                               !.pc = IF b = Num(0) THEN instr.arg ELSE @])
          [] op = "PRINT" -> ExecPrint(vm, instr)
          [] op = "SCANF" -> ExecScanf(vm, instr)
          [] op = "STORE" -> Store(vm, Rest(st), setMemory(vm.memory, Local(vm, instr), b))
          [] op = "LOAD" -> Load(vm, st, getMemory(vm.memory, Local(vm, instr)))
          [] op = "STORE64" ->
               Store(vm, Rest(st), setMemory64(vm.memory, Local(vm, instr), b))
          [] op = "LOAD64" -> Load(vm, st, getMemory64(vm.memory, Local(vm, instr)))
          [] op = "P_PUSH" -> Push(vm, st, Local(vm, instr))
          [] op = "S_IND" -> Store(vm, Rest2(st), setMemory(vm.memory, a, b))
          [] op = "L_IND" -> Load(vm, Rest(st), getMemory(vm.memory, b))
          [] op = "S_IND64" -> Store(vm, Rest2(st), setMemory64(vm.memory, a, b))
          [] op = "L_IND64" -> Load(vm, Rest(st), getMemory64(vm.memory, b))
          [] op = "MALLOC" ->
               Push([vm EXCEPT !.heapPointer = JsArith("ADD", @, b)],
                    Rest(st), vm.heapPointer)
          [] op \in {"SIN", "COS", "TAN", "SQRT", "ABS"} ->
               Push(vm, Rest(st), JsMath(op, b))
          [] op = "POW" -> Push(vm, Rest2(st), JsPow(a, b))
          \* no case for the opcode: the switch falls through
          [] OTHER -> Done(vm)

\* The opcodes of the enum that executeInstruction has no case for and the
\* compiler never emits.
ReservedOps == {"FREE", "CALL", "RET", "GLOAD", "GSTORE", "FRAME", "ITOF"}

\* -------------------------------------------------------------------- step
\* step with a switch whose default case throws on an opcode it does not know.
ExecuteAtRejectsUnknown(vm) ==
    LET next == [vm EXCEPT !.pc = @ + 1]
    IN  IF vm.pc < 0 THEN Raise(next, <<"TypeError: instr is undefined">>)
        ELSE IF vm.code[vm.pc + 1].op \in ReservedOps
        THEN Raise(next, <<"Illegal instruction">>)
        ELSE executeInstruction(next, vm.code[vm.pc + 1])

\* this.code[this.pc++] is undefined below index 0, and executeInstruction
\* then throws a TypeError reading instr.op.
ExecuteAt(vm) ==
    LET next == [vm EXCEPT !.pc = @ + 1]
    IN  IF vm.pc < 0 THEN Raise(next, <<"TypeError: instr is undefined">>)
        ELSE executeInstruction(next, vm.code[vm.pc + 1])

\* The loop of step without the state test that follows each instruction.
RECURSIVE StepLoopNoStateTest(_, _, _, _)
StepLoopNoStateTest(vm, i, cycles, n) ==
    IF i >= cycles THEN [vm |-> vm, ret |-> TRUE, executed |-> n]
    ELSE IF vm.pc >= Len(vm.code)
    THEN [vm |-> [vm EXCEPT !.state = "TERMINATED"], ret |-> FALSE, executed |-> n]
    ELSE LET r == ExecuteAt(vm)
         IN  IF r.exc.thrown
             THEN [vm |-> [Write(r.vm, SegvOut(r.exc.msg)) EXCEPT !.state = "TERMINATED"],
                   ret |-> FALSE, executed |-> n + 1]
             ELSE StepLoopNoStateTest(r.vm, i + 1, cycles, n + 1)

\* The loop of step with > for >= in its test of pc against the length of
\* the code: the instruction behind the last one is fetched, and it is
\* undefined.
RECURSIVE StepLoopFetchesBeyond(_, _, _, _)
StepLoopFetchesBeyond(vm, i, cycles, n) ==
    IF i >= cycles THEN [vm |-> vm, ret |-> TRUE, executed |-> n]
    ELSE IF vm.pc > Len(vm.code)
    THEN [vm |-> [vm EXCEPT !.state = "TERMINATED"], ret |-> FALSE, executed |-> n]
    ELSE LET r == IF vm.pc = Len(vm.code)
                  THEN Raise([vm EXCEPT !.pc = @ + 1], <<"TypeError: instr is undefined">>)
                  ELSE ExecuteAt(vm)
         IN  IF r.exc.thrown
             THEN [vm |-> [Write(r.vm, SegvOut(r.exc.msg)) EXCEPT !.state = "TERMINATED"],
                   ret |-> FALSE, executed |-> n + 1]
             ELSE IF r.vm.state \in {"TERMINATED", "WAITING_INPUT"}
             THEN [vm |-> r.vm, ret |-> FALSE, executed |-> n + 1]
             ELSE StepLoopFetchesBeyond(r.vm, i + 1, cycles, n + 1)

\* The for loop of step from iteration i on; n counts the instructions fetched.
RECURSIVE StepLoop(_, _, _, _)
StepLoop(vm, i, cycles, n) ==
    IF i >= cycles THEN [vm |-> vm, ret |-> TRUE, executed |-> n]
    ELSE IF vm.pc >= Len(vm.code)
    THEN [vm |-> [vm EXCEPT !.state = "TERMINATED"], ret |-> FALSE, executed |-> n]
    ELSE LET r == ExecuteAt(vm)
         IN  IF r.exc.thrown
             THEN [vm |-> [Write(r.vm, SegvOut(r.exc.msg)) EXCEPT !.state = "TERMINATED"],
                   ret |-> FALSE, executed |-> n + 1]
             ELSE IF r.vm.state \in {"TERMINATED", "WAITING_INPUT"}
             THEN [vm |-> r.vm, ret |-> FALSE, executed |-> n + 1]
             ELSE StepLoop(r.vm, i + 1, cycles, n + 1)

\* step whose loop counts from 1: every call runs one instruction less.
stepCountsFromOne(vm, cycles) ==
    IF vm.state \in {"TERMINATED", "WAITING_INPUT"}
    THEN [vm |-> vm, ret |-> FALSE, executed |-> 0]
    ELSE StepLoop(vm, 1, cycles, 0)

\* step with a guard that lets a terminated process run.
stepTerminatedRuns(vm, cycles) ==
    IF vm.state = "WAITING_INPUT"
    THEN [vm |-> vm, ret |-> FALSE, executed |-> 0]
    ELSE StepLoop(vm, 0, cycles, 0)

\* step with a guard that lets a waiting process run.
stepWaitingRuns(vm, cycles) ==
    IF vm.state = "TERMINATED"
    THEN [vm |-> vm, ret |-> FALSE, executed |-> 0]
    ELSE StepLoop(vm, 0, cycles, 0)

step(vm, cycles) ==
    IF vm.state \in {"TERMINATED", "WAITING_INPUT"}
    THEN [vm |-> vm, ret |-> FALSE, executed |-> 0]
    ELSE StepLoop(vm, 0, cycles, 0)

\* ------------------------------------------------------------ resolveInput
ScanFlags == {32, 43, 45, 35, 48}

\* The %s arm: raw byte by byte from addr, then the terminating 0.
RECURSIVE WriteString(_, _, _, _)
WriteString(mem, addr, raw, k) ==
    LET at == JsArith("ADD", addr, Num(k))
    IN  IF k >= Len(raw) THEN setMemoryByte(mem, at, Num(0))
        ELSE LET r == setMemoryByte(mem, at, Num(raw[k + 1]))
             IN  IF r.exc.thrown THEN r ELSE WriteString(r.mem, addr, raw, k + 1)

ScanStore(mem, type, long, addr, raw) ==
    CASE type = 100 -> setMemory(mem, addr, OrZero(ParseInt(raw)))
      [] type = 102 ->
           IF long THEN setMemory64(mem, addr, OrZero(ParseFloat(raw)))
           ELSE setMemory(mem, addr, OrZero(ParseFloat(raw)))
      [] type = 99 -> setMemory(mem, addr, IF raw = << >> THEN NaN ELSE Num(raw[1]))
      [] type = 115 -> WriteString(mem, addr, raw, 0)
      [] OTHER -> [mem |-> mem, exc |-> NoThrow]

\* The loop over fmt from index i on (1-based); typeIdx and inputIdx are the
\* next address and the next token.
RECURSIVE ScanLoop(_, _, _, _, _, _, _)
ScanLoop(mem, fmt, args, inputs, i, typeIdx, inputIdx) ==
    IF i > Len(fmt) THEN [mem |-> mem, exc |-> NoThrow]
    ELSE IF fmt[i] # 37 THEN ScanLoop(mem, fmt, args, inputs, i + 1, typeIdx, inputIdx)
    ELSE LET i2 == i + 1 + Run(fmt, i + 1, ScanFlags)
             i3 == i2 + Run(fmt, i2, DigitSet)
             i4 == IF i3 <= Len(fmt) /\ fmt[i3] = 46
                   THEN i3 + 1 + Run(fmt, i3 + 1, DigitSet) ELSE i3
             long == i4 <= Len(fmt) /\ fmt[i4] = 108
             i5 == IF long THEN i4 + 1 ELSE i4
             type == IF i5 <= Len(fmt) THEN fmt[i5] ELSE 0
         IN  IF inputIdx > Len(inputs) \/ typeIdx > Len(args)
             THEN [mem |-> mem, exc |-> NoThrow]
             ELSE LET r == ScanStore(mem, type, long, args[typeIdx], inputs[inputIdx])
                  IN  IF r.exc.thrown THEN r
                      ELSE ScanLoop(r.mem, fmt, args, inputs, i5 + 1,
                                    typeIdx + 1, inputIdx + 1)

\* resolveInput that tests only the scan context and does not clear it.
resolveInputKeepsContext(vm, input) ==
    IF ~vm.scanContext.set THEN Done(vm)
    ELSE LET r == ScanLoop(vm.memory, vm.scanContext.fmt, vm.scanContext.args,
                           Tokens(input), 1, 1, 1)
         IN  IF r.exc.thrown THEN Raise([vm EXCEPT !.memory = r.mem], r.exc.msg)
             ELSE Done([vm EXCEPT !.memory = r.mem, !.state = "RUNNING"])

\* resolveInput has no try: what a store throws leaves the call, with the
\* bytes written so far kept and neither scanContext nor state reset.
resolveInput(vm, input) ==
    IF vm.state # "WAITING_INPUT" \/ ~vm.scanContext.set THEN Done(vm)
    ELSE LET r == ScanLoop(vm.memory, vm.scanContext.fmt, vm.scanContext.args,
                           Tokens(input), 1, 1, 1)
         IN  IF r.exc.thrown THEN Raise([vm EXCEPT !.memory = r.mem], r.exc.msg)
             ELSE Done([vm EXCEPT !.memory = r.mem,
                                  !.scanContext = NoScan,
                                  !.state = "RUNNING"])

\* ---------------------------------------------------------------- programs
\* Executables handed to createProcess: (bytecode, data segment).
Exe(code, data) == [code |-> code, data |-> data]

\* "%d" and its terminating 0
FmtD == <<37, 100, 0>>

\* the empty program
ProgEmpty == Exe(<< >>, << >>)
\* int main(){ return 0; }
ProgHalt == Exe(<<Ins("LIT", 0), Ins("HALT", 0)>>, << >>)
\* 1 / 0
ProgDivZero == Exe(<<Ins("LIT", 1), Ins("LIT", 0), Ins("DIV", 0), Ins("HALT", 0)>>, << >>)
\* a store above the memory: fp + 6000 = 66000
ProgStoreHigh == Exe(<<Ins("LIT", 7), Ins("STORE", 6000), Ins("HALT", 0)>>, << >>)
\* a load below the memory: *(-4)
ProgLoadLow == Exe(<<Ins("LIT", -4), Ins("L_IND", 0), Ins("HALT", 0)>>, << >>)
\* a jump past the last instruction
ProgJumpHigh == Exe(<<Ins("JMP", 5), Ins("HALT", 0)>>, << >>)
\* a jump below the first instruction
ProgJumpLow == Exe(<<Ins("LIT", 3), Ins("JMP", -1), Ins("HALT", 0)>>, << >>)
\* int d; scanf("%d", &d); printf("%d", d);
ProgScan ==
    Exe(<<Ins("P_PUSH", 0), Ins("LIT", 0), Ins("SCANF", 1),
          Ins("LOAD", 0), Ins("LIT", 0), Ins("PRINT", 1), Ins("HALT", 0)>>, FmtD)
\* scanf("%d", p) with p = 70000, an address above the memory
ProgScanHigh ==
    Exe(<<Ins("LIT", 70000), Ins("LIT", 0), Ins("SCANF", 1), Ins("HALT", 0)>>, FmtD)
\* while(1) {}
ProgLoop == Exe(<<Ins("LIT", 1), Ins("JZ", 3), Ins("JMP", 0), Ins("HALT", 0)>>, << >>)
\* int *p = malloc(8); *p = 5;
ProgMalloc ==
    Exe(<<Ins("LIT", 8), Ins("MALLOC", 0), Ins("LIT", 5), Ins("S_IND", 0),
          Ins("HALT", 0)>>, << >>)

\* malloc(1); malloc(1);
ProgMallocTwice ==
    Exe(<<Ins("LIT", 1), Ins("MALLOC", 0), Ins("POP", 0), Ins("LIT", 1),
          Ins("MALLOC", 0), Ins("HALT", 0)>>, << >>)

\* "%d%d" and its terminating 0
FmtDD == <<37, 100, 37, 100, 0>>

\* int a = 5, b = 6; scanf("%d%d", &a, &b);
ProgScanTwo ==
    Exe(<<Ins("LIT", 5), Ins("STORE", 0), Ins("LIT", 6), Ins("STORE", 4),
          Ins("P_PUSH", 0), Ins("P_PUSH", 4), Ins("LIT", 0), Ins("SCANF", 2),
          Ins("HALT", 0)>>, FmtDD)

\* scanf("") and the end of the code
ProgAsk == Exe(<<Ins("LIT", 0), Ins("SCANF", 0)>>, << >>)

AllPrograms ==
    {ProgEmpty, ProgAsk, ProgHalt, ProgDivZero, ProgStoreHigh, ProgLoadLow, ProgJumpHigh,
     ProgJumpLow, ProgScan, ProgScanHigh, ProgLoop, ProgMalloc, ProgScanTwo,
     ProgMallocTwice}

RegistryPrograms == {ProgAsk}

\* Terminal lines: "", "7", " -3 ", "x", "7 8"
Lines == {<< >>, <<55>>, <<32, 45, 51, 32>>, <<120>>, <<55, 32, 56>>}

ProcessNames == {"a.out"}
SystemNames == {"Terminal"}
\* the absent optional windowId
Undefined == "undefined"
Windows == {"win-1"}

\* Subscribers: TaskManager's update, which calls getProcessList(), and a
\* callback that leaves the registry alone.
Callbacks == {"update", "observer"}

\* ------------------------------------------------------------------- state
VARIABLES
    vms,        \* every ProcessVM constructed so far, by pid
    processes,  \* ProcessManager.processes: pid -> entry (its vm is vms[pid])
    nextPid,    \* ProcessManager.nextPid
    listeners,  \* ProcessManager.listeners
    last,       \* the last call made by the host and what it observed
    shell,      \* Shell.foregroundPID and the runChunk timers that are pending
    compiler,   \* the fields of the shared Compiler instance (export const compiler)
    aout        \* the file a.out of the working directory, once gcc wrote it

vars == <<vms, processes, nextPid, listeners, last, shell, compiler, aout>>

\* foregroundPID: number | null = null; pids start at 100, 0 stands for null.
NoPid == 0

\* new Compiler(): the field initialisers of the class. Maps are functions;
\* the empty map is the empty function.
FreshCompiler ==
    [tokens |-> << >>, pos |-> 0, instructions |-> << >>, locals |-> << >>,
     localOffset |-> 0, dataSegment |-> << >>, macros |-> << >>,
     warnings |-> << >>, controlStack |-> << >>]

\* No file a.out yet: resolvePath returns nothing.
NoFile == [exists |-> FALSE, bytecode |-> << >>, dataSegment |-> << >>]

\* The observation of a call: its name, its pid (argument or result), step's
\* budget, return value and number of instructions fetched, whether an
\* exception reached the caller, the callbacks invoked in order, the number of
\* registry mutations (each followed by notify) and the list returned. For
\* resolveInput, ret tells whether the call found the process waiting and
\* list holds the line.
Observed(op, pid) ==
    [op |-> op, pid |-> pid, cycles |-> 0, ret |-> FALSE, executed |-> 0,
     raised |-> FALSE, calls |-> << >>, muts |-> 0, list |-> << >>]

Init ==
    /\ vms = << >>
    /\ processes = << >>
    /\ nextPid = FirstPid
    /\ listeners = << >>
    /\ last = Observed("none", 0)
    /\ shell = [foregroundPID |-> NoPid, timers |-> EmptyBag]
    /\ compiler = FreshCompiler
    /\ aout = NoFile

\* --------------------------------------------------------- ProcessManager
\* The registry as the methods see it; calls and muts count what the call
\* under way has done.
Registry ==
    [processes |-> processes, nextPid |-> nextPid, listeners |-> listeners,
     calls |-> << >>, muts |-> 0]

Without(f, dead) == [x \in DOMAIN f \ dead |-> f[x]]

RECURSIVE Ascending(_)
Ascending(S) ==
    IF S = {} THEN << >>
    ELSE LET m == CHOOSE x \in S : \A y \in S : x <= y
         IN  <<m>> \o Ascending(S \ {m})

\* Array.from(this.processes.entries()).map(...): a Map iterates in insertion
\* order, which is the order of the pids.
Snapshot(procs, v) ==
    LET order == Ascending(DOMAIN procs)
    IN  [j \in 1..Len(order) |->
            [id |-> order[j],
             pid |-> order[j],
             name |-> procs[order[j]].name,
             state |-> v[order[j]].state,
             memoryUsage |-> procs[order[j]].memoryUsage,
             startTime |-> procs[order[j]].startTime,
             windowId |-> procs[order[j]].windowId]]

RECURSIVE InvokeAll(_, _, _, _)
RECURSIVE cleanupTerminated(_, _)

\* this.listeners.forEach(l => l()): forEach walks the array it was called on.
notify(pm, v) == InvokeAll(pm, v, pm.listeners, 1)

\* getProcessList without the sweep.
getProcessListNoSweep(pm, v) == [pm |-> pm, list |-> Snapshot(pm.processes, v)]

getProcessList(pm, v) ==
    LET swept == cleanupTerminated(pm, v)
    IN  [pm |-> swept, list |-> Snapshot(swept.processes, v)]

\* One listener called: TaskManager's update calls getProcessList().
Invoke(pm, v, cb) ==
    LET called == [pm EXCEPT !.calls = Append(@, cb)]
    IN  IF cb = "update" THEN getProcessList(called, v).pm ELSE called

InvokeAll(pm, v, ls, i) ==
    IF i > Len(ls) THEN pm ELSE InvokeAll(Invoke(pm, v, ls[i]), v, ls, i + 1)

\* A sweep that stops at the first dead entry it removes.
cleanupTerminatedFirstOnly(pm, v) ==
    LET dead == {p \in DOMAIN pm.processes : v[p].state = "TERMINATED"}
        first == {p \in dead : \A q \in dead : p <= q}
    IN  IF dead = {} THEN pm
        ELSE notify([pm EXCEPT !.processes = Without(@, first), !.muts = @ + 1], v)

cleanupTerminated(pm, v) ==
    LET dead == {p \in DOMAIN pm.processes : v[p].state = "TERMINATED"}
    IN  IF dead = {} THEN pm
        ELSE notify([pm EXCEPT !.processes = Without(@, dead), !.muts = @ + 1], v)

\* Date.now(): the clock of the model advances by one with every pid issued.
Clock(pm) == pm.nextPid - FirstPid

\* A pid allocator that hands out the lowest pid the registry does not hold.
AllocatePidLowestFree(pm) ==
    LET free == {p \in FirstPid..pm.nextPid : p \notin DOMAIN pm.processes}
    IN  [pid |-> CHOOSE p \in free : \A q \in free : p <= q,
         pm |-> [pm EXCEPT !.nextPid = @ + 1]]

\* const pid = this.nextPid++
AllocatePid(pm) == [pid |-> pm.nextPid, pm |-> [pm EXCEPT !.nextPid = @ + 1]]

\* this.processes.set(pid, {...}); this.notify(); return pid
Register(pm, v, pid, entry) ==
    [pm |-> notify([pm EXCEPT !.processes = (pid :> entry) @@ @, !.muts = @ + 1], v),
     vms |-> v,
     pid |-> pid]

createProcess(pm, v, name, exe, time) ==
    LET a == AllocatePid(pm)
        entry == [name |-> name, startTime |-> time,
                  memoryUsage |-> UserMemoryUsage, windowId |-> Undefined]
    IN  Register(a.pm, (a.pid :> NewVM(a.pid, exe.code, exe.data, "terminal")) @@ v, a.pid, entry)

registerSystemProcess(pm, v, name, memoryUsage, windowId, time) ==
    LET a == AllocatePid(pm)
        entry == [name |-> name, startTime |-> time,
                  memoryUsage |-> memoryUsage, windowId |-> windowId]
    IN  Register(a.pm, (a.pid :> NewVM(a.pid, << >>, << >>, "discard")) @@ v, a.pid, entry)

\* Terminate that marks every VM running the code of a dead one, as if the
\* state were kept with the executable.
TerminateSameProgram(v, dead) ==
    [p \in DOMAIN v |->
        IF \E d \in dead \cap DOMAIN v : v[d].code = v[p].code
        THEN [v[p] EXCEPT !.state = "TERMINATED"] ELSE v[p]]

\* proc.vm.state = 'TERMINATED' for the processes of dead.
Terminate(v, dead) ==
    [p \in DOMAIN v |-> IF p \in dead THEN [v[p] EXCEPT !.state = "TERMINATED"] ELSE v[p]]

\* killProcess that marks the VM and keeps the entry.
killProcessKeepsEntry(pm, v, pid) ==
    IF pid \in DOMAIN pm.processes
    THEN LET v2 == Terminate(v, {pid})
         IN  [pm |-> notify([pm EXCEPT !.muts = @ + 1], v2), vms |-> v2]
    ELSE [pm |-> pm, vms |-> v]

\* killProcess with this.notify() after the if instead of inside it.
killProcessAlwaysNotifies(pm, v, pid) ==
    IF pid \in DOMAIN pm.processes
    THEN LET v2 == Terminate(v, {pid})
         IN  [pm |-> notify([pm EXCEPT !.processes = Without(@, {pid}),
                                       !.muts = @ + 1], v2),
              vms |-> v2]
    ELSE [pm |-> notify(pm, v), vms |-> v]

\* A kill that deletes the entry and leaves the VM as it is.
killProcessLeavesRunning(pm, v, pid) ==
    IF pid \in DOMAIN pm.processes
    THEN [pm |-> notify([pm EXCEPT !.processes = Without(@, {pid}), !.muts = @ + 1], v),
          vms |-> v]
    ELSE [pm |-> pm, vms |-> v]

killProcess(pm, v, pid) ==
    IF pid \in DOMAIN pm.processes
    THEN LET v2 == Terminate(v, {pid})
         IN  [pm |-> notify([pm EXCEPT !.processes = Without(@, {pid}),
                                       !.muts = @ + 1], v2),
              vms |-> v2]
    ELSE [pm |-> pm, vms |-> v]

\* killProcessByWindow without the removed flag.
killProcessByWindowAlwaysNotifies(pm, v, windowId) ==
    LET hit == {p \in DOMAIN pm.processes : pm.processes[p].windowId = windowId}
        v2 == Terminate(v, hit)
    IN  [pm |-> notify([pm EXCEPT !.processes = Without(@, hit),
                                  !.muts = @ + (IF hit # {} THEN 1 ELSE 0)], v2),
         vms |-> v2]

\* killProcessByWindow that stops at the first entry it removes.
killProcessByWindowFirstOnly(pm, v, windowId) ==
    LET all == {p \in DOMAIN pm.processes : pm.processes[p].windowId = windowId}
        hit == {p \in all : \A q \in all : p <= q}
        v2 == Terminate(v, hit)
    IN  IF hit # {}
        THEN [pm |-> notify([pm EXCEPT !.processes = Without(@, hit),
                                       !.muts = @ + 1], v2),
              vms |-> v2]
        ELSE [pm |-> pm, vms |-> v]

killProcessByWindow(pm, v, windowId) ==
    LET hit == {p \in DOMAIN pm.processes : pm.processes[p].windowId = windowId}
        v2 == Terminate(v, hit)
    IN  IF hit # {}
        THEN [pm |-> notify([pm EXCEPT !.processes = Without(@, hit),
                                       !.muts = @ + 1], v2),
              vms |-> v2]
        ELSE [pm |-> pm, vms |-> v]

\* this.processes.get(pid)?.vm
getProcess(procs, v, pid) == IF pid \in DOMAIN procs THEN {v[pid]} ELSE {}

\* this.listeners.push(cb)
subscribe(ls, cb) == Append(ls, cb)

\* this.listeners = this.listeners.filter(l => l !== cb)
unsubscribe(ls, cb) == SelectSeq(ls, LAMBDA l : l # cb)

\* ----------------------------------------------------------------- actions
\* What a ProcessManager call leaves behind.
Commit(r, obs) ==
    /\ vms' = r.vms
    /\ processes' = r.pm.processes
    /\ nextPid' = r.pm.nextPid
    /\ listeners' = r.pm.listeners
    /\ last' = [obs EXCEPT !.calls = r.pm.calls, !.muts = r.pm.muts]
    /\ UNCHANGED <<shell, compiler, aout>>

CreateProcess(programs, limit) ==
    /\ nextPid < FirstPid + limit
    /\ \E exe \in programs, name \in ProcessNames :
         LET r == createProcess(Registry, vms, name, exe, Clock(Registry))
         IN  Commit(r, Observed("createProcess", r.pid))

RegisterSystemProcess ==
    /\ nextPid < FirstPid + MaxProcs
    /\ \E name \in SystemNames, windowId \in Windows \cup {Undefined} :
         LET r == registerSystemProcess(Registry, vms, name, SystemMemoryUsage,
                                        windowId, Clock(Registry))
         IN  Commit(r, Observed("registerSystemProcess", r.pid))

\* kill is called with any pid: issued or not, registered or not.
KillProcess ==
    /\ \E pid \in FirstPid..(FirstPid + MaxProcs) :
         Commit(killProcess(Registry, vms, pid), Observed("killProcess", pid))

KillProcessByWindow ==
    /\ \E windowId \in Windows \cup {"win-0"} :
         Commit(killProcessByWindow(Registry, vms, windowId),
                [Observed("killProcessByWindow", 0) EXCEPT !.list = <<windowId>>])

GetProcessList ==
    /\ LET r == getProcessList(Registry, vms)
       IN  Commit([pm |-> r.pm, vms |-> vms],
                  [Observed("getProcessList", 0) EXCEPT !.list = r.list])

GetProcess ==
    /\ \E pid \in FirstPid..(FirstPid + MaxProcs) :
         last' = [Observed("getProcess", pid) EXCEPT
                     !.ret = getProcess(processes, vms, pid) # {}]
    /\ UNCHANGED <<vms, processes, nextPid, listeners, shell, compiler, aout>>

Subscribe ==
    /\ Len(listeners) < MaxListeners
    /\ \E cb \in Callbacks :
         /\ listeners' = subscribe(listeners, cb)
         /\ last' = Observed("subscribe", 0)
    /\ UNCHANGED <<vms, processes, nextPid, shell, compiler, aout>>

\* The function an earlier subscribe(cb) returned is called.
Unsubscribe ==
    /\ \E j \in 1..Len(listeners) :
         /\ listeners' = unsubscribe(listeners, listeners[j])
         /\ last' = Observed("unsubscribe", 0)
    /\ UNCHANGED <<vms, processes, nextPid, shell, compiler, aout>>

\* The VMs the host launched with createProcess and holds (the registry need
\* not hold them any more): the ones that write to its terminal.
Launched == {p \in DOMAIN vms : vms[p].stdout = "terminal"}

\* The host calls step on a VM it launched.
Step(budgets) ==
    /\ \E pid \in Launched, cycles \in budgets :
         LET r == step(vms[pid], cycles)
         IN  /\ vms' = [vms EXCEPT ![pid] = r.vm]
             /\ last' = [Observed("step", pid) EXCEPT
                            !.cycles = cycles, !.ret = r.ret, !.executed = r.executed]
    /\ UNCHANGED <<processes, nextPid, listeners, shell, compiler, aout>>

\* The host hands a terminal line to a VM it launched.
ResolveInput(lines) ==
    /\ \E pid \in Launched, line \in lines :
         LET r == resolveInput(vms[pid], line)
         IN  /\ vms' = [vms EXCEPT ![pid] = r.vm]
             /\ last' = [Observed("resolveInput", pid) EXCEPT
                            !.raised = r.exc.thrown, !.list = <<line>>,
                            !.ret = (vms[pid].state = "WAITING_INPUT")]
    /\ UNCHANGED <<processes, nextPid, listeners, shell, compiler, aout>>

\* One process running any program of the model, stepped, fed and killed.
NextVM ==
    \/ CreateProcess(AllPrograms, 1)
    \/ Step(0..MaxCycles)
    \/ ResolveInput(Lines)
    \/ KillProcess
    \/ GetProcessList

SpecVM == Init /\ [][NextVM]_vars

\* The registry with its processes, system processes and subscribers.
Next ==
    \/ CreateProcess(RegistryPrograms, MaxProcs)
    \/ RegisterSystemProcess
    \/ KillProcess
    \/ KillProcessByWindow
    \/ GetProcessList
    \/ GetProcess
    \/ Subscribe
    \/ Unsubscribe
    \/ Step({MaxCycles})
    \/ ResolveInput({<<55>>})

Spec == Init /\ [][Next]_vars

\* ---------------------------------------------------------------------
\* Properties of the virtual machine, checked under SpecVM.

\* C1: a Terminated process is never changed again: step, resolveInput and
\* killProcess (and every other operation) leave its state, pc, stack,
\* memory and everything it wrote to stdout exactly as they were.
TerminatedIsAbsorbing ==
    [][\A p \in DOMAIN vms :
          vms[p].state = "TERMINATED" => vms'[p] = vms[p]]_vars

\* A process that had terminated with output on the terminal was handed a
\* line of input afterwards (resolveInput never terminates a process itself).
TerminatedWasFed ==
    \E p \in DOMAIN vms :
        /\ vms[p].state = "TERMINATED"
        /\ vms[p].out # << >>
        /\ last.op = "resolveInput" /\ last.pid = p

\* C2: a process that is WAITING_INPUT executes nothing: step returns false
\* and changes nothing of it, and it leaves WAITING_INPUT only through
\* resolveInput (to RUNNING) or through a kill (to TERMINATED).
WaitingExecutesNothing ==
    [][\A p \in DOMAIN vms :
          vms[p].state = "WAITING_INPUT" =>
            /\ (last'.op = "step" /\ last'.pid = p) =>
                  /\ vms'[p] = vms[p]
                  /\ ~last'.ret
                  /\ last'.executed = 0
            /\ vms'[p].state # "WAITING_INPUT" =>
                  \/ /\ last'.op = "resolveInput" /\ last'.pid = p
                     /\ vms'[p].state = "RUNNING"
                  \/ /\ last'.op \in {"killProcess", "killProcessByWindow"}
                     /\ vms'[p].state = "TERMINATED"]_vars

\* step was called with a positive budget on a waiting process (a step that
\* executes the SCANF itself counts one instruction).
WaitingWasStepped ==
    \E p \in DOMAIN vms :
        /\ vms[p].state = "WAITING_INPUT"
        /\ last.op = "step" /\ last.pid = p
        /\ last.cycles > 0 /\ last.executed = 0

\* C3: step(n) returns true exactly when the process is RUNNING afterwards,
\* and then it executed exactly n instructions; it returns false exactly when
\* the process is WAITING_INPUT or TERMINATED afterwards; it never executes
\* more than n instructions.
StepResultMeansRunning ==
    last.op = "step" =>
        /\ last.ret <=> vms[last.pid].state = "RUNNING"
        /\ ~last.ret <=> vms[last.pid].state \in {"WAITING_INPUT", "TERMINATED"}
        /\ last.ret => last.executed = last.cycles
        /\ last.executed <= last.cycles

\* A step used up its whole budget of more than one instruction.
StepUsedWholeBudget ==
    /\ last.op = "step" /\ last.ret
    /\ last.cycles = MaxCycles /\ last.executed = MaxCycles
    /\ vms[last.pid].pc > 0

\* The instruction a RUNNING process executes next, when its pc names one.
AtInstruction(vm) == vm.pc >= 0 /\ vm.pc < Len(vm.code)
NextInstruction(vm) == vm.code[vm.pc + 1]

\* The next instruction is a DIV whose divisor is 0.
DivideFault(vm) ==
    /\ AtInstruction(vm)
    /\ NextInstruction(vm).op = "DIV"
    /\ Top(vm.stack) = Num(0)

\* The address and the width of the next instruction's memory access.
AccessOf(vm) ==
    LET instr == NextInstruction(vm)
    IN  CASE instr.op \in {"STORE", "LOAD"} -> [addr |-> Local(vm, instr), width |-> 4]
          [] instr.op \in {"STORE64", "LOAD64"} -> [addr |-> Local(vm, instr), width |-> 8]
          [] instr.op = "S_IND" -> [addr |-> Top2(vm.stack), width |-> 4]
          [] instr.op = "L_IND" -> [addr |-> Top(vm.stack), width |-> 4]
          [] instr.op = "S_IND64" -> [addr |-> Top2(vm.stack), width |-> 8]
          [] instr.op = "L_IND64" -> [addr |-> Top(vm.stack), width |-> 8]
          [] OTHER -> [addr |-> Num(0), width |-> 0]

\* The next instruction loads or stores a range that is not inside [0, 65536).
AccessFault(vm) ==
    /\ AtInstruction(vm)
    /\ LET a == AccessOf(vm)
       IN  /\ a.width > 0
           /\ IsNum(a.addr)
           /\ (a.addr.v < 0 \/ a.addr.v + a.width > MemSize)

\* A jump has left the pc below the first instruction.
JumpBelowFault(vm) == vm.pc < 0

\* A jump has left the pc beyond the end of the program.
JumpBeyondFault(vm) == vm.pc > Len(vm.code)

\* The step of process p wrote exactly one diagnostic, and nothing else,
\* left p TERMINATED and returned false.
FaultReported(p) ==
    /\ Len(vms'[p].out) = Len(vms[p].out) + 1
    /\ SubSeq(vms'[p].out, 1, Len(vms[p].out)) = vms[p].out
    /\ vms'[p].out[Len(vms'[p].out)].segv
    /\ vms'[p].state = "TERMINATED"
    /\ ~last'.ret
    /\ ~last'.raised

\* The step of process p wrote nothing, left p TERMINATED and returned false.
EndedSilently(p) ==
    /\ vms'[p].out = vms[p].out
    /\ vms'[p].state = "TERMINATED"
    /\ ~last'.ret
    /\ ~last'.raised

\* No process has more than one diagnostic on its terminal, and one that
\* has a diagnostic is TERMINATED.
OneDiagnosticAtMost(v) ==
    \A p \in DOMAIN v :
        LET n == Cardinality({j \in 1..Len(v[p].out) : v[p].out[j].segv})
        IN  n <= 1 /\ (n = 1 => v[p].state = "TERMINATED")

\* C4 as stated: a step that meets a division by zero, a load or store
\* outside [0, 65536) or a jump to an invalid instruction index writes
\* exactly one diagnostic, terminates the process and returns false.
EveryFaultIsReported ==
    [][\A p \in DOMAIN vms :
          ( /\ vms[p].state = "RUNNING"
            /\ last'.op = "step" /\ last'.pid = p /\ last'.cycles >= 1
            /\ \/ DivideFault(vms[p])
               \/ AccessFault(vms[p])
               \/ JumpBelowFault(vms[p])
               \/ JumpBeyondFault(vms[p]) )
          => FaultReported(p)]_vars

\* C4: a step that meets a division by zero, a load or store outside
\* [0, 65536) or a jump to a negative instruction index writes exactly one
\* diagnostic, terminates the process and returns false; a jump beyond the
\* end of the program terminates the process and returns false without a
\* diagnostic; no process ever has two diagnostics, or one while not
\* TERMINATED.
FaultsReportedOrSilent ==
    [][/\ \A p \in DOMAIN vms :
            ( /\ vms[p].state = "RUNNING"
              /\ last'.op = "step" /\ last'.pid = p /\ last'.cycles >= 1 )
            => /\ ( \/ DivideFault(vms[p])
                    \/ AccessFault(vms[p])
                    \/ JumpBelowFault(vms[p]) ) => FaultReported(p)
               /\ JumpBeyondFault(vms[p]) => EndedSilently(p)
       /\ OneDiagnosticAtMost(vms')]_vars

\* A store outside the memory was reported: the diagnostic names a write.
StoreFaultReported ==
    \E p \in DOMAIN vms :
        /\ last.op = "step" /\ last.pid = p /\ ~last.ret
        /\ vms[p].state = "TERMINATED"
        /\ vms[p].out # << >>
        /\ vms[p].out[Len(vms[p].out)].segv
        /\ vms[p].out[Len(vms[p].out)].reason[1] = "Segfault: Write"

\* The width of the first conversion of a scanf format, 0 when it has none.
FirstConversionWidth(fmt) ==
    IF Len(fmt) >= 2 /\ fmt[1] = 37 /\ fmt[2] \in {100, 102, 99} THEN 4 ELSE 0

\* The process waits in a scanf whose first conversion has a destination
\* outside [0, 65536).
ScanFault(vm) ==
    /\ vm.state = "WAITING_INPUT"
    /\ vm.scanContext.set
    /\ FirstConversionWidth(vm.scanContext.fmt) > 0
    /\ vm.scanContext.args # << >>
    /\ LET addr == vm.scanContext.args[1]
       IN  IsNum(addr) /\ (addr.v < 0 \/ addr.v + 4 > MemSize)

\* C5 as stated: resolveInput that writes outside the memory puts a
\* diagnostic on stdout, leaves the process TERMINATED and throws nothing
\* to its caller.
ScanFaultIsContained ==
    [][\A p \in DOMAIN vms :
          (ScanFault(vms[p]) /\ last'.op = "resolveInput" /\ last'.pid = p)
          => /\ ~last'.raised
             /\ vms'[p].state = "TERMINATED"
             /\ Len(vms'[p].out) = Len(vms[p].out) + 1
             /\ vms'[p].out[Len(vms'[p].out)].segv]_vars

\* ---------------------------------------------------------------------
\* Properties of the process registry, checked under Spec.

\* The pids that were issued and that the registry no longer holds.
Retired == DOMAIN vms \ DOMAIN processes

\* The registered processes whose VM is TERMINATED and not swept yet.
DeadEntries == {p \in DOMAIN processes : vms[p].state = "TERMINATED"}

\* A subscriber that calls getProcessList() from its callback is subscribed.
ListingSubscribed == \E j \in 1..Len(listeners) : listeners[j] = "update"

\* C6 as stated: killProcess of a registered pid terminates its VM and
\* removes its entry, getProcess finds nothing for it and no later list has
\* it, and every other entry of the registry is unchanged.
KillRemovesOnlyThatEntry ==
    [][/\ \A pid \in DOMAIN processes :
            (last'.op = "killProcess" /\ last'.pid = pid) =>
               /\ vms'[pid].state = "TERMINATED"
               /\ pid \notin DOMAIN processes'
               /\ getProcess(processes', vms', pid) = {}
               /\ \A q \in DOMAIN processes \ {pid} :
                     /\ q \in DOMAIN processes'
                     /\ processes'[q] = processes[q]
                     /\ vms'[q].state = vms[q].state
       /\ last'.op = "getProcessList" =>
             \A j \in 1..Len(last'.list) : last'.list[j].pid \notin Retired]_vars

\* C6: killProcess of a registered pid terminates its VM and removes its
\* entry, getProcess finds nothing for it and no later list has it; no other
\* VM changes, every other entry that stays is unchanged, and another entry
\* goes exactly when its VM had already terminated and a subscriber lists
\* the processes from its callback (the sweep of that list removes it).
KillRemovesThatEntryAndSweeps ==
    [][/\ \A pid \in DOMAIN processes :
            (last'.op = "killProcess" /\ last'.pid = pid) =>
               /\ vms'[pid].state = "TERMINATED"
               /\ pid \notin DOMAIN processes'
               /\ getProcess(processes', vms', pid) = {}
               /\ DOMAIN processes' \subseteq DOMAIN processes
               /\ \A q \in DOMAIN processes \ {pid} :
                     /\ vms'[q] = vms[q]
                     /\ q \in DOMAIN processes' => processes'[q] = processes[q]
                     /\ q \notin DOMAIN processes' <=>
                           (vms[q].state = "TERMINATED" /\ ListingSubscribed)
       /\ last'.op = "getProcessList" =>
             \A j \in 1..Len(last'.list) : last'.list[j].pid \notin Retired]_vars

\* A registered process was killed and another process is still registered.
KilledOneOfTwo ==
    /\ last.op = "killProcess"
    /\ last.pid \in Retired
    /\ last.muts >= 1
    /\ vms[last.pid].state = "TERMINATED"
    /\ processes # << >>

\* C7: killProcess of a pid the registry does not hold (never issued, or
\* killed or swept before) does nothing: it throws nothing, changes no entry
\* and no VM, leaves the pid counter alone and calls no subscriber.
KillUnknownDoesNothing ==
    [][\A pid \in FirstPid..(FirstPid + MaxProcs) :
          (pid \notin DOMAIN processes /\ last'.op = "killProcess" /\ last'.pid = pid)
          => /\ UNCHANGED <<vms, processes, nextPid, listeners>>
             /\ last'.calls = << >>
             /\ ~last'.raised]_vars

\* An already killed or swept pid was killed again while a subscriber was
\* listening.
KilledAgain ==
    /\ last.op = "killProcess"
    /\ last.pid \in Retired
    /\ last.muts = 0
    /\ listeners # << >>

\* C8: createProcess and registerSystemProcess return a pid that was never
\* returned before and is larger than every pid returned before; the first
\* pid is 100; the new entry is registered under it.
PidsAreFresh ==
    [][last'.op \in {"createProcess", "registerSystemProcess"} =>
          /\ last'.pid \notin DOMAIN vms
          /\ \A q \in DOMAIN vms : last'.pid > q
          /\ DOMAIN vms = {} => last'.pid = FirstPid
          /\ last'.pid \in DOMAIN vms']_vars

\* A process was created after the first one had left the registry.
CreatedAfterRemoval ==
    /\ last.op = "createProcess"
    /\ last.pid > FirstPid
    /\ FirstPid \in Retired

\* C9: getProcessList returns no record whose state is TERMINATED, and when
\* it has returned the registry holds no entry whose VM is TERMINATED.
ListHasNoDeadProcess ==
    last.op = "getProcessList" =>
        /\ \A j \in 1..Len(last.list) : last.list[j].state # "TERMINATED"
        /\ \A j \in 1..Len(last.list) : last.list[j].pid \in DOMAIN processes
        /\ DeadEntries = {}

\* A list swept a process that had terminated on its own and returned the
\* processes that are left.
ListSweptADeadProcess ==
    /\ last.op = "getProcessList"
    /\ last.muts > 0
    /\ last.list # << >>

\* The number of times cb occurs in calls.
Count(cb, calls) == Cardinality({j \in 1..Len(calls) : calls[j] = cb})

\* The call notified k times: each subscription was called k times, in all.
Notified(k) ==
    /\ Len(last'.calls) = k * Len(listeners)
    /\ \A cb \in Callbacks : Count(cb, last'.calls) = k * Count(cb, listeners)

\* The registry changes of a call that removes the entries gone itself
\* (own is 1 when the call adds or removes an entry): the call's own change,
\* and the sweep of the entries left dead, made by the list of a subscriber.
Changes(own, gone) ==
    own + (IF own = 1 /\ DeadEntries \ gone # {} /\ ListingSubscribed THEN 1 ELSE 0)

\* The entries killProcessByWindow removes.
WindowEntries(windowId) == {p \in DOMAIN processes : processes[p].windowId = windowId}

\* C10: every change of the registry calls every subscribed callback once,
\* before the call that made the change returns: a create or a register, a
\* kill that removes an entry, a kill by window that removes at least one
\* entry, a list that sweeps at least one entry; a call that changes
\* nothing of the registry calls no callback.
NotificationIsExact ==
    [][CASE last'.op \in {"createProcess", "registerSystemProcess"} ->
              Notified(Changes(1, {}))
         [] last'.op = "killProcess" ->
              IF last'.pid \in DOMAIN processes
              THEN Notified(Changes(1, {last'.pid}))
              ELSE Notified(0)
         [] last'.op = "killProcessByWindow" ->
              LET hit == WindowEntries(last'.list[1])
              IN  Notified(Changes(IF hit # {} THEN 1 ELSE 0, hit))
         [] last'.op = "getProcessList" ->
              Notified(IF DeadEntries # {} THEN 1 ELSE 0)
         [] OTHER -> Notified(0)]_vars

\* A kill by window removed an entry, a subscriber listed the processes from
\* its callback and that list swept a dead entry: two changes, and every
\* subscription called twice.
NotifiedTwice ==
    /\ last.op = "killProcessByWindow"
    /\ last.muts = 2
    /\ Len(listeners) = MaxListeners
    /\ Len(last.calls) = 2 * Len(listeners)

\* C25 as stated: killProcessByWindow(w) terminates and removes exactly the
\* entries whose window id is w; every other entry is unchanged and still
\* there; the subscribers are notified once when an entry was removed and
\* not at all otherwise.
KillByWindowRemovesExactly ==
    [][last'.op = "killProcessByWindow" =>
          /\ \A p \in WindowEntries(last'.list[1]) :
                vms'[p].state = "TERMINATED" /\ p \notin DOMAIN processes'
          /\ \A q \in DOMAIN processes \ WindowEntries(last'.list[1]) :
                /\ q \in DOMAIN processes'
                /\ processes'[q] = processes[q]
                /\ vms'[q] = vms[q]
          /\ Notified(IF WindowEntries(last'.list[1]) # {} THEN 1 ELSE 0)]_vars

\* C25: killProcessByWindow(w) terminates and removes every entry whose
\* window id is w; no other VM changes and every other entry that stays is
\* unchanged; another entry goes exactly when the call removed an entry, its
\* own VM had already terminated and a subscriber lists the processes from
\* its callback (the sweep of that list removes it); the subscribers are
\* notified once for the removal, once more for such a sweep, and not at
\* all when no entry has the window id.
KillByWindowRemovesAndSweeps ==
    [][last'.op = "killProcessByWindow" =>
          /\ \A p \in WindowEntries(last'.list[1]) :
                vms'[p].state = "TERMINATED" /\ p \notin DOMAIN processes'
          /\ DOMAIN processes' \subseteq DOMAIN processes
          /\ \A q \in DOMAIN processes \ WindowEntries(last'.list[1]) :
                /\ vms'[q] = vms[q]
                /\ q \in DOMAIN processes' => processes'[q] = processes[q]
                /\ q \notin DOMAIN processes' <=>
                      /\ WindowEntries(last'.list[1]) # {}
                      /\ vms[q].state = "TERMINATED"
                      /\ ListingSubscribed
          /\ Notified(Changes(IF WindowEntries(last'.list[1]) # {} THEN 1 ELSE 0,
                              WindowEntries(last'.list[1])))]_vars

\* A kill by window removed two entries of the window at once.
KilledTwoOfAWindow ==
    /\ last.op = "killProcessByWindow"
    /\ last.muts = 1
    /\ \E p, q \in Retired : p # q /\ vms[p].stdout = "discard" /\ vms[q].stdout = "discard"
    /\ listeners # << >>

\* ------------------------------------------------------------------ Shell
\* vm.step(5000): the instructions of one chunk of the pump, scaled down.
ChunkCycles == 2

\* "./a.out"
RunLine == <<46, 47, 97, 46, 111, 117, 116>>

\* Terminal lines handed to handleInput: "./a.out", "7" and "".
ShellLines == {RunLine, <<55>>, << >>}

\* A program that computes for more than one chunk and ends.
ProgBusy ==
    Exe(<<Ins("LIT", 1), Ins("POP", 0), Ins("LIT", 1), Ins("POP", 0), Ins("LIT", 1),
          Ins("POP", 0), Ins("HALT", 0)>>, << >>)

\* A program that asks for a line and then computes for more than one chunk.
ProgAskBusy ==
    Exe(<<Ins("LIT", 0), Ins("SCANF", 0), Ins("LIT", 1), Ins("POP", 0), Ins("LIT", 1),
          Ins("POP", 0), Ins("HALT", 0)>>, << >>)

\* What gcc may have left in a.out when it is run.
ShellPrograms == {ProgBusy, ProgAskBusy}

\* cmdName.startsWith('./')
StartsWithDotSlash(cmdName) == Len(cmdName) >= 2 /\ cmdName[1] = 46 /\ cmdName[2] = 47

\* runChunk that sets no timer: the pump ends with its first chunk.
runChunkOnce(sh, v, pid) ==
    LET Stepped(r) ==
            IF r.ret \/ r.vm.state = "WAITING_INPUT"
            THEN [shell |-> sh, vms |-> [v EXCEPT ![pid] = r.vm]]
            ELSE [shell |-> [sh EXCEPT !.foregroundPID = NoPid],
                  vms |-> [v EXCEPT ![pid] = r.vm]]
    IN  IF v[pid].state = "TERMINATED"
        THEN [shell |-> [sh EXCEPT !.foregroundPID = NoPid], vms |-> v]
        ELSE IF v[pid].state = "WAITING_INPUT" THEN [shell |-> sh, vms |-> v]
        ELSE Stepped(step(v[pid], ChunkCycles))

\* runChunk that sets its timer whenever the process has not ended, a
\* waiting one included.
runChunkRearmsWaiting(sh, v, pid) ==
    LET Stepped(r) ==
            IF r.ret \/ r.vm.state = "WAITING_INPUT"
            THEN [shell |-> [sh EXCEPT !.timers = @ (+) SetToBag({pid})],
                  vms |-> [v EXCEPT ![pid] = r.vm]]
            ELSE [shell |-> [sh EXCEPT !.foregroundPID = NoPid],
                  vms |-> [v EXCEPT ![pid] = r.vm]]
    IN  IF v[pid].state = "TERMINATED"
        THEN [shell |-> [sh EXCEPT !.foregroundPID = NoPid], vms |-> v]
        ELSE IF v[pid].state = "WAITING_INPUT" THEN [shell |-> sh, vms |-> v]
        ELSE Stepped(step(v[pid], ChunkCycles))

\* runChunk of resumeExecution(vm, stdout) for the VM of pid; a chunk that
\* returns true leaves a timer that calls runChunk again. The timers that
\* are pending are a bag of pids: one copy for each setTimeout.
runChunk(sh, v, pid) ==
    LET Stepped(r) ==
            IF r.ret
            THEN [shell |-> [sh EXCEPT !.timers = @ (+) SetToBag({pid})],
                  vms |-> [v EXCEPT ![pid] = r.vm]]
            ELSE IF r.vm.state = "WAITING_INPUT"
            THEN [shell |-> sh, vms |-> [v EXCEPT ![pid] = r.vm]]
            ELSE [shell |-> [sh EXCEPT !.foregroundPID = NoPid],
                  vms |-> [v EXCEPT ![pid] = r.vm]]
    IN  IF v[pid].state = "TERMINATED"
        THEN [shell |-> [sh EXCEPT !.foregroundPID = NoPid], vms |-> v]
        ELSE IF v[pid].state = "WAITING_INPUT" THEN [shell |-> sh, vms |-> v]
        ELSE Stepped(step(v[pid], ChunkCycles))

resumeExecution(sh, v, pid) == runChunk(sh, v, pid)

\* Shell.execute(input, ...): the blank line, "./name" with the executable
\* node the file system holds under the name, or any other command, which
\* touches neither a process nor foregroundPID.
execute(sh, pm, v, input, node) ==
    LET Created(c) ==
            LET Resumed(r) ==
                    [shell |-> r.shell, pm |-> c.pm, vms |-> r.vms, how |-> "launched",
                     pid |-> c.pid, raised |-> FALSE]
            IN  Resumed(resumeExecution([sh EXCEPT !.foregroundPID = c.pid], c.vms, c.pid))
    IN  IF Trim(input) = << >>
        THEN [shell |-> sh, pm |-> pm, vms |-> v, how |-> "ignored", pid |-> NoPid,
              raised |-> FALSE]
        ELSE IF StartsWithDotSlash(Tokens(input)[1])
        THEN Created(createProcess(pm, v, "a.out", node, Clock(pm)))
        ELSE [shell |-> sh, pm |-> pm, vms |-> v, how |-> "command", pid |-> NoPid,
              raised |-> FALSE]

\* Shell.handleInput(input, stdout, stderr, openApp)
handleInput(sh, pm, v, input, node) ==
    LET fg == sh.foregroundPID
        Resumed(r) ==
            [shell |-> r.shell, pm |-> pm, vms |-> r.vms, how |-> "routed",
             pid |-> fg, raised |-> FALSE]
        Routed(fed) ==
            IF fed.exc.thrown
            THEN [shell |-> sh, pm |-> pm, vms |-> [v EXCEPT ![fg] = fed.vm],
                  how |-> "routed", pid |-> fg, raised |-> TRUE]
            ELSE Resumed(resumeExecution(sh, [v EXCEPT ![fg] = fed.vm], fg))
        Found(proc) ==
            IF proc # {} /\ v[fg].state = "WAITING_INPUT"
            THEN Routed(resolveInput(Write(v[fg], PrintOut(input \o <<13, 10>>)), input))
            ELSE execute(IF fg # NoPid /\ (proc = {} \/ v[fg].state = "TERMINATED")
                         THEN [sh EXCEPT !.foregroundPID = NoPid] ELSE sh,
                         pm, v, input, node)
    IN  Found(IF fg = NoPid THEN {} ELSE getProcess(pm.processes, v, fg))

\* The terminal hands a line to the shell, which has launched fewer than
\* limit processes when the line launches one.
HandleInputOf(limit) ==
    LET Handled(r) ==
            /\ r.how = "launched" => nextPid < FirstPid + limit
            /\ vms' = r.vms
            /\ processes' = r.pm.processes
            /\ nextPid' = r.pm.nextPid
            /\ listeners' = r.pm.listeners
            /\ shell' = r.shell
            /\ last' = [Observed("handleInput", r.pid) EXCEPT
                           !.ret = (r.how = "routed"), !.raised = r.raised,
                           !.list = <<r.how>>, !.calls = r.pm.calls, !.muts = r.pm.muts]
    IN  /\ \E input \in ShellLines, node \in ShellPrograms :
               Handled(handleInput(shell, Registry, vms, input, node))
        /\ UNCHANGED <<compiler, aout>>

\* The terminal hands a line to the shell.
HandleInput == HandleInputOf(MaxProcs)

\* A timer set by setTimeout(runChunk, 0) for the VM of pid fires.
RunChunkOf(pid) ==
    LET Ran(r) ==
            /\ vms' = r.vms
            /\ shell' = r.shell
            /\ last' = Observed("runChunk", pid)
    IN  /\ BagIn(pid, shell.timers)
        /\ Ran(runChunk([shell EXCEPT !.timers = @ (-) SetToBag({pid})], vms, pid))
        /\ UNCHANGED <<processes, nextPid, listeners, compiler, aout>>

\* A timer set by setTimeout(runChunk, 0) fires.
RunChunk == \E pid \in BagToSet(shell.timers) : RunChunkOf(pid)

\* One shell with its terminal, its timers, and the kill button and the
\* process list of the task manager.
NextShell ==
    \/ HandleInput
    \/ RunChunk
    \/ KillProcess
    \/ GetProcessList

SpecShell == Init /\ [][NextShell]_vars

\* The process the shell launched last.
LastLaunched == nextPid - 1

\* C11: while the process the shell launched last is WAITING_INPUT, a line
\* handed to handleInput is passed to that process's resolveInput and is not
\* executed as a shell command, whatever launches, timers, terminations and
\* lines came before.
WaitingProcessGetsTheLine ==
    [][(/\ nextPid > FirstPid
        /\ vms[LastLaunched].state = "WAITING_INPUT"
        /\ last'.op = "handleInput")
       => (last'.ret /\ last'.pid = LastLaunched)]_vars

\* ---------------------------------------------------------------------
\* Properties of scanf, checked under SpecVM.

\* C12: a line is consumed only by a process that waits: resolveInput on a
\* RUNNING or TERMINATED process changes nothing of it (no memory byte, no
\* stack entry, not the state) and throws nothing; so after a resolveInput
\* has returned the process to RUNNING, another one before the next SCANF
\* does nothing.
LineOnlyForWaiting ==
    [][\A p \in DOMAIN vms :
          ( /\ vms[p].state \in {"RUNNING", "TERMINATED"}
            /\ last'.op = "resolveInput" /\ last'.pid = p )
          => /\ vms'[p] = vms[p]
             /\ ~last'.ret
             /\ ~last'.raised]_vars

\* A process that had executed its SCANF and had taken its line was handed a
\* second line before it ran on.
SecondLineIgnored ==
    \E p \in DOMAIN vms :
        /\ vms[p].code = ProgScan.code
        /\ vms[p].state = "RUNNING"
        /\ vms[p].pc = 3
        /\ last.op = "resolveInput" /\ last.pid = p /\ ~last.ret

\* The number of conversions of a scanf format.
Conversions(fmt) == Cardinality({i \in 1..Len(fmt) : fmt[i] = 37})

\* The number of whitespace-separated tokens of a line: none in a blank line.
TokenCount(line) == IF Trim(line) = << >> THEN 0 ELSE Len(Tokens(line))

\* The four bytes at an address.
WordAt(mem, addr) == ReadBytes(mem, addr.v, 4)

\* C13 as stated: when the line has fewer tokens than the scan context has
\* conversions (the blank line has none), resolveInput leaves the bytes at
\* the addresses of the conversions without a token as they were.
FewerTokensLeaveTheRest ==
    [][\A p \in DOMAIN vms :
          ( /\ vms[p].state = "WAITING_INPUT"
            /\ vms[p].scanContext.set
            /\ last'.op = "resolveInput" /\ last'.pid = p )
          => LET ctx == vms[p].scanContext
                 k == Conversions(ctx.fmt)
                 t == TokenCount(last'.list[1])
             IN  t < k =>
                   \A i \in (t + 1)..k :
                      (i <= Len(ctx.args) /\ IsNum(ctx.args[i]))
                      => WordAt(vms'[p].memory, ctx.args[i])
                           = WordAt(vms[p].memory, ctx.args[i])]_vars

\* C14: SCANF n pops the format address and n addresses, makes the process
\* WAITING_INPUT and ends the step; resolveInput then stores the i-th token at
\* the i-th address in the order the addresses were pushed, clears the scan
\* context, makes the process RUNNING and leaves pc at the instruction after
\* the SCANF, and the stack as it was.
ScanfDeliversInOrder ==
    [][\A p \in DOMAIN vms :
        /\ ( /\ vms[p].state = "RUNNING"
             /\ AtInstruction(vms[p])
             /\ NextInstruction(vms[p]).op = "SCANF"
             /\ last'.op = "step" /\ last'.pid = p /\ last'.cycles >= 1 )
           => LET n == NextInstruction(vms[p]).arg
                  st == vms[p].stack
              IN  Len(st) >= n + 1 =>
                    /\ vms'[p].state = "WAITING_INPUT"
                    /\ ~last'.ret /\ last'.executed = 1
                    /\ vms'[p].pc = vms[p].pc + 1
                    /\ vms'[p].stack = SubSeq(st, 1, Len(st) - n - 1)
                    /\ vms'[p].scanContext.set
                    /\ vms'[p].scanContext.args = SubSeq(st, Len(st) - n, Len(st) - 1)
        /\ ( /\ vms[p].state = "WAITING_INPUT"
             /\ vms[p].scanContext.set
             /\ last'.op = "resolveInput" /\ last'.pid = p
             /\ ~last'.raised )
           => LET ctx == vms[p].scanContext
                  tokens == Tokens(last'.list[1])
              IN  /\ vms'[p].state = "RUNNING"
                  /\ vms'[p].scanContext = NoScan
                  /\ vms'[p].pc = vms[p].pc
                  /\ vms'[p].stack = vms[p].stack
                  /\ ctx.fmt \in {<<37, 100>>, <<37, 100, 37, 100>>} =>
                       \A i \in 1..Len(ctx.args) :
                          i <= Len(tokens) =>
                             getMemory(vms'[p].memory, ctx.args[i]).val
                                = OrZero(ParseInt(tokens[i]))]_vars

\* "7 8" was read by scanf("%d%d", &a, &b): a is 7 and b is 8.
TwoTokensStored ==
    \E p \in DOMAIN vms :
        /\ vms[p].code = ProgScanTwo.code
        /\ vms[p].state = "RUNNING"
        /\ last.op = "resolveInput" /\ last.pid = p /\ last.ret
        /\ getMemory(vms[p].memory, Num(InitialFp)).val = Num(7)
        /\ getMemory(vms[p].memory, Num(InitialFp + 4)).val = Num(8)

\* ---------------------------------------------------------------------
\* The comparison opcodes.

CompareOps == {"EQ", "NEQ", "LT", "GT", "LE", "GE"}
CompareValues == {0 - 1, 0, 2}

\* a op b, as the compiler emits it: a, b, the opcode.
ComparePrograms ==
    {Exe(<<Ins("LIT", a), Ins("LIT", b), Ins(op, 0), Ins("HALT", 0)>>, << >>) :
        a \in CompareValues, b \in CompareValues, op \in CompareOps}

\* One process that evaluates one comparison.
NextCompare ==
    \/ CreateProcess(ComparePrograms, 1)
    \/ Step({1, MaxCycles})

SpecCompare == Init /\ [][NextCompare]_vars

\* The relation a comparison opcode stands for.
Holds(op, a, b) ==
    CASE op = "EQ" -> a = b
      [] op = "NEQ" -> a # b
      [] op = "LT" -> a < b
      [] op = "GT" -> a > b
      [] op = "LE" -> a <= b
      [] op = "GE" -> a >= b

\* C15: each of EQ, NEQ, LT, GT, LE and GE, executed on a stack that holds
\* a below b, pops both and pushes 1 when a op b holds and 0 when it does
\* not, so the stack is one shorter.
ComparisonsPushTruth ==
    [][\A p \in DOMAIN vms :
          ( /\ vms[p].state = "RUNNING"
            /\ AtInstruction(vms[p])
            /\ NextInstruction(vms[p]).op \in CompareOps
            /\ Len(vms[p].stack) >= 2
            /\ IsNum(Top(vms[p].stack)) /\ IsNum(Top2(vms[p].stack))
            /\ last'.op = "step" /\ last'.pid = p /\ last'.cycles = 1 )
          => vms'[p].stack =
               Rest2(vms[p].stack) \o
               <<Num(IF Holds(NextInstruction(vms[p]).op,
                              Top2(vms[p].stack).v, Top(vms[p].stack).v)
                     THEN 1 ELSE 0)>>]_vars

\* C18: every pointer MALLOC pushes is a multiple of 4, whatever the data
\* segment and whatever non-negative integer sizes the MALLOCs before it
\* were given.
MallocIsAligned ==
    [][\A p \in DOMAIN vms :
          ( /\ vms[p].state = "RUNNING"
            /\ AtInstruction(vms[p])
            /\ NextInstruction(vms[p]).op = "MALLOC"
            /\ IsNum(Top(vms[p].stack)) /\ Top(vms[p].stack).v >= 0
            /\ last'.op = "step" /\ last'.pid = p /\ last'.cycles = 1 )
          => /\ IsNum(Top(vms'[p].stack))
             /\ Top(vms'[p].stack).v % 4 = 0]_vars

\* ================================================================ compiler
\* The C compiler of the shell's gcc command (class Compiler). Source text,
\* macro bodies and literal values are sequences of character codes; a token
\* {type, value, line} keeps its value twice, as the codes and as the string
\* the parser compares and quotes in its messages.

\* The printable ASCII characters from code 32 to code 95.
Ascii ==
    <<
      " ", "!", "\"", "#", "$", "%", "&", "'", "(", ")", "*", "+",
      ",", "-", ".", "/", "0", "1", "2", "3", "4", "5", "6", "7",
      "8", "9", ":", ";", "<", "=", ">", "?", "@", "A", "B", "C",
      "D", "E", "F", "G", "H", "I", "J", "K", "L", "M", "N", "O",
      "P", "Q", "R", "S", "T", "U", "V", "W", "X", "Y", "Z", "[",
      "\\", "]", "^", "_"
    >>

\* And from code 97.
AsciiLower ==
    <<
      "a", "b", "c", "d", "e", "f", "g", "h", "i", "j", "k", "l",
      "m", "n", "o", "p", "q", "r", "s", "t", "u", "v", "w", "x",
      "y", "z", "{", "|", "}", "~"
    >>

\* String.fromCharCode(c) for the characters a token value can hold; NUL is
\* written \0 (the texts of the model hold no other control character and no
\* character of code 96).
Chr(c) ==
    CASE c \in 32..95 -> Ascii[c - 31]
      [] c \in 97..126 -> AsciiLower[c - 96]
      [] c = 10 -> "\n"
      [] c = 9 -> "\t"
      [] c = 13 -> "\r"
      [] OTHER -> "\\0"

RECURSIVE Text(_)
Text(codes) == IF codes = << >> THEN "" ELSE Chr(Head(codes)) \o Text(Tail(codes))

Token(type, codes, line) ==
    [type |-> type, value |-> Text(codes), codes |-> codes, line |-> line]

\* An Error thrown by the compiler: 'Line <n>: <text>' when kind is "Line"
\* (line 0 stands for the '?' the message shows when there is no token), the
\* bare text when kind is "Error", and a TypeError of the runtime (a property
\* read on undefined) when kind is "TypeError".
NoError == [thrown |-> FALSE, kind |-> "", line |-> 0, text |-> ""]
CompileError(kind, line, text) == [thrown |-> TRUE, kind |-> kind, line |-> line, text |-> text]

\* error(msg): the line is that of tokens[pos], or of the last token when
\* pos is beyond them, whatever these fields hold at the time of the call.
error(self, msg) ==
    LET n == Len(self.tokens)
        line == IF self.pos < n THEN self.tokens[self.pos + 1].line
                ELSE IF n > 0 THEN self.tokens[n].line
                ELSE 0
    IN  CompileError("Line", line, msg)

\* s.split(sep) on one separator character: a piece starts at 1 and after
\* every separator, and ends before the next one.
SplitOn(s, sep) ==
    LET starts == {1} \cup {i + 1 : i \in {j \in 1..Len(s) : s[j] = sep}}
        startOf(k) == CHOOSE x \in starts : Cardinality({y \in starts : y < x}) = k - 1
        endOf(k) == IF k = Cardinality(starts) THEN Len(s) ELSE startOf(k + 1) - 2
    IN  [k \in 1..Cardinality(starts) |-> SubSeq(s, startOf(k), endOf(k))]

\* parts.join(sep)
RECURSIVE Join(_, _)
Join(parts, sep) ==
    IF parts = << >> THEN << >>
    ELSE IF Len(parts) = 1 THEN parts[1]
    ELSE parts[1] \o <<sep>> \o Join(Tail(parts), sep)

Define == <<100, 101, 102, 105, 110, 101>>
Ifdef == <<105, 102, 100, 101, 102>>
Ifndef == <<105, 102, 110, 100, 101, 102>>
Endif == <<101, 110, 100, 105, 102>>

\* preprocess that records a #define wherever it stands.
preprocessDefinesAlways(self, source) ==
    LET lines == SplitOn(source, 10)
        isEmitting(stack) == \A k \in 1..Len(stack) : stack[k]
        RECURSIVE loop(_, _, _, _)
        loop(i, macros, stack, outLines) ==
            IF i > Len(lines)
            THEN [macros |-> macros, stack |-> stack, out |-> Join(outLines, 10)]
            ELSE
            LET line == lines[i]
                trimmed == Trim(line)
            IN  IF trimmed # << >> /\ Head(trimmed) = 35
                THEN LET parts == SplitWs(Tail(trimmed), << >>)
                         cmd == parts[1]
                         hasArg1 == Len(parts) >= 2 /\ parts[2] # << >>
                         arg1 == IF Len(parts) >= 2 THEN parts[2] ELSE << >>
                         argRest == Join(SubSeq(parts, 3, Len(parts)), 32)
                         out2 == outLines \o << << >> >>
                     IN  IF cmd = Define
                         THEN IF hasArg1
                              THEN loop(i + 1,
                                        [m \in DOMAIN macros \cup {arg1} |->
                                            IF m = arg1
                                            THEN (IF argRest # << >> THEN argRest ELSE <<49>>)
                                            ELSE macros[m]],
                                        stack, out2)
                              ELSE loop(i + 1, macros, stack, out2)
                         ELSE IF cmd = Ifdef
                         THEN loop(i + 1, macros,
                                   stack \o <<isEmitting(stack) /\ Len(parts) >= 2
                                                /\ arg1 \in DOMAIN macros>>, out2)
                         ELSE IF cmd = Ifndef
                         THEN loop(i + 1, macros,
                                   stack \o <<isEmitting(stack)
                                                /\ ~(Len(parts) >= 2 /\ arg1 \in DOMAIN macros)>>,
                                   out2)
                         ELSE IF cmd = Endif
                         THEN loop(i + 1, macros, Rest(stack), out2)
                         ELSE loop(i + 1, macros, stack, out2)
                ELSE loop(i + 1, macros, stack,
                          outLines \o <<IF isEmitting(stack) THEN line ELSE << >> >>)
        r == loop(1, self.macros, << >>, << >>)
    IN  IF Len(r.stack) > 0
        THEN [self |-> [self EXCEPT !.macros = r.macros], out |-> << >>, stack |-> r.stack,
              err |-> CompileError("Error", 0, "Unterminated #ifdef/#ifndef block")]
        ELSE [self |-> [self EXCEPT !.macros = r.macros], out |-> r.out, stack |-> r.stack,
              err |-> NoError]

\* preprocess(source): the directive lines are blanked, the lines of a false
\* #ifdef/#ifndef block too, and the #define lines fill this.macros; stack
\* is the emission stack when the loop ends.
preprocess(self, source) ==
    LET lines == SplitOn(source, 10)
        isEmitting(stack) == \A k \in 1..Len(stack) : stack[k]
        RECURSIVE loop(_, _, _, _)
        loop(i, macros, stack, outLines) ==
            IF i > Len(lines)
            THEN [macros |-> macros, stack |-> stack, out |-> Join(outLines, 10)]
            ELSE
            LET line == lines[i]
                trimmed == Trim(line)
            IN  IF trimmed # << >> /\ Head(trimmed) = 35
                THEN LET parts == SplitWs(Tail(trimmed), << >>)
                         cmd == parts[1]
                         hasArg1 == Len(parts) >= 2 /\ parts[2] # << >>
                         arg1 == IF Len(parts) >= 2 THEN parts[2] ELSE << >>
                         argRest == Join(SubSeq(parts, 3, Len(parts)), 32)
                         out2 == outLines \o << << >> >>
                     IN  IF cmd = Define
                         THEN IF isEmitting(stack) /\ hasArg1
                              THEN loop(i + 1,
                                        [m \in DOMAIN macros \cup {arg1} |->
                                            IF m = arg1
                                            THEN (IF argRest # << >> THEN argRest ELSE <<49>>)
                                            ELSE macros[m]],
                                        stack, out2)
                              ELSE loop(i + 1, macros, stack, out2)
                         ELSE IF cmd = Ifdef
                         THEN loop(i + 1, macros,
                                   stack \o <<isEmitting(stack) /\ Len(parts) >= 2
                                                /\ arg1 \in DOMAIN macros>>, out2)
                         ELSE IF cmd = Ifndef
                         THEN loop(i + 1, macros,
                                   stack \o <<isEmitting(stack)
                                                /\ ~(Len(parts) >= 2 /\ arg1 \in DOMAIN macros)>>,
                                   out2)
                         ELSE IF cmd = Endif
                         THEN loop(i + 1, macros, Rest(stack), out2)
                         ELSE loop(i + 1, macros, stack, out2)
                ELSE loop(i + 1, macros, stack,
                          outLines \o <<IF isEmitting(stack) THEN line ELSE << >> >>)
        r == loop(1, self.macros, << >>, << >>)
    IN  IF Len(r.stack) > 0
        THEN [self |-> [self EXCEPT !.macros = r.macros], out |-> << >>, stack |-> r.stack,
              err |-> CompileError("Error", 0, "Unterminated #ifdef/#ifndef block")]
        ELSE [self |-> [self EXCEPT !.macros = r.macros], out |-> r.out, stack |-> r.stack,
              err |-> NoError]

\* /[a-zA-Z_]/ and /[0-9.]/
AlphaChars == (65..90) \cup (97..122) \cup {95}
NumChars == (48..57) \cup {46}

Keywords ==
    {"int", "void", "char", "float", "double", "return", "if", "else", "while",
     "for", "do", "switch", "case", "default", "break", "continue", "printf",
     "scanf", "malloc", "free", "sin", "cos", "tan", "sqrt", "pow", "abs"}

\* '+', '-', '*', '/', '%', '=', '(', ')', '{', '}', ';', ',', '<', '>', '&',
\* '[', ']', ':'
SymbolChars == {43, 45, 42, 47, 37, 61, 40, 41, 123, 125, 59, 44, 60, 62, 38, 91, 93, 58}

\* The character an escape sequence \c stands for.
Escape(c) ==
    CASE c = 110 -> 10
      [] c = 116 -> 9
      [] c = 114 -> 13
      [] c = 48 -> 0
      [] OTHER -> c

\* The while loop of the lexer runs at most 2^LoopDepth iterations, which is
\* more than the characters of any source of the model.
LoopDepth == 8

\* tokenizeString(source, startLine): the tokens of the text, or the error
\* of a broken char literal, raised through this.error. iteration(i, line)
\* is one iteration of the while loop: the position and the line after it
\* and the token it pushed, if any; while(level, st) runs the loop from st
\* for at most 2^level iterations.
tokenizeString(self, source, startLine) ==
    LET n == Len(source)
        RECURSIVE stringLiteral(_, _)
        stringLiteral(i, val) ==
            IF i > n \/ source[i] = 34 THEN [i |-> i, val |-> val]
            ELSE IF source[i] = 92
            THEN IF i + 1 > n THEN [i |-> i + 1, val |-> val]
                 ELSE stringLiteral(i + 2, val \o <<Escape(source[i + 1])>>)
            ELSE stringLiteral(i + 1, val \o <<source[i]>>)
        RECURSIVE lineEnd(_)
        lineEnd(i) == IF i <= n /\ source[i] # 10 THEN lineEnd(i + 1) ELSE i
        skip(i, line) == [i |-> i, line |-> line, tokens |-> << >>, err |-> NoError]
        push(i, line, type, codes) ==
            [i |-> i, line |-> line, tokens |-> <<Token(type, codes, line)>>, err |-> NoError]
        throw(msg) == [i |-> n + 1, line |-> 0, tokens |-> << >>, err |-> error(self, msg)]
        iteration(i, line) ==
            LET c == source[i]
                two == IF i < n THEN <<c, source[i + 1]>> ELSE <<c>>
            IN  IF c = 10 THEN skip(i + 1, line + 1)
                ELSE IF IsSpace(c) THEN skip(i + 1, line)
                ELSE IF two = <<47, 47>> THEN skip(lineEnd(i), line)
                ELSE IF c = 34
                THEN LET s == stringLiteral(i + 1, << >>)
                     IN  push(IF s.i <= n THEN s.i + 1 ELSE s.i, line, "STRING", s.val)
                ELSE IF c = 39
                THEN IF i + 1 > n THEN throw("Unexpected EOF in char literal")
                     ELSE LET esc == source[i + 1] = 92
                              at == IF esc THEN i + 2 ELSE i + 1
                          IN  IF at > n THEN throw("Unexpected EOF in char literal escape")
                              ELSE IF at + 1 > n \/ source[at + 1] # 39
                              THEN throw("Expected closing single quote")
                              ELSE push(at + 2, line, "CHAR",
                                        <<IF esc THEN Escape(source[at]) ELSE source[at]>>)
                ELSE IF c \in AlphaChars
                THEN LET len == Run(source, i, AlphaChars \cup NumChars)
                         val == SubSeq(source, i, i + len - 1)
                     IN  push(i + len, line,
                              IF Text(val) \in Keywords THEN "KEYWORD" ELSE "ID", val)
                ELSE IF c \in NumChars
                THEN LET len == Run(source, i, NumChars)
                     IN  push(i + len, line, "NUMBER", SubSeq(source, i, i + len - 1))
                ELSE IF two \in {<<61, 61>>, <<33, 61>>, <<60, 61>>, <<62, 61>>}
                THEN push(i + 2, line, "SYMBOL", two)
                ELSE IF c \in SymbolChars THEN push(i + 1, line, "SYMBOL", <<c>>)
                ELSE skip(i + 1, line)
        body(st) ==
            LET s == iteration(st.i, st.line)
            IN  IF s.err.thrown THEN [st EXCEPT !.err = s.err]
                ELSE [i |-> s.i, line |-> s.line, tokens |-> st.tokens \o s.tokens,
                      err |-> NoError]
        RECURSIVE while(_, _)
        while(level, st) ==
            IF st.i > n \/ st.err.thrown THEN st
            ELSE IF level = 0 THEN body(st)
            ELSE while(level - 1, while(level - 1, st))
        end == while(LoopDepth, [i |-> 1, line |-> startLine, tokens |-> << >>,
                                 err |-> NoError])
    IN  [tokens |-> end.tokens, err |-> end.err]

\* expandMacros(): every ID token that names a macro is replaced by the
\* tokens of the macro's body, all on the line of the ID.
expandMacros(self) ==
    LET RECURSIVE loop(_, _)
        loop(i, newTokens) ==
            IF i > Len(self.tokens) THEN [tokens |-> newTokens, err |-> NoError]
            ELSE LET t == self.tokens[i]
                 IN  IF t.type = "ID" /\ t.codes \in DOMAIN self.macros
                     THEN LET expanded == tokenizeString(self, self.macros[t.codes], t.line)
                          IN  IF expanded.err.thrown
                              THEN [tokens |-> newTokens, err |-> expanded.err]
                              ELSE loop(i + 1, newTokens \o expanded.tokens)
                     ELSE loop(i + 1, newTokens \o <<t>>)
        r == loop(1, << >>)
    IN  IF r.err.thrown THEN [self |-> self, err |-> r.err]
        ELSE [self |-> [self EXCEPT !.tokens = r.tokens], err |-> NoError]

\* ------------------------------------------------------------------ parser
\* The parser works on the fields of the instance; err holds the exception
\* in flight, and every method returns at once when one is. The call stack
\* of the recursive descent is the field frames: a frame names a method and
\* the point in it where the method goes on once the method it has called
\* returns, with the locals it needs there.
Parser(self) ==
    [tokens |-> self.tokens, pos |-> self.pos, instructions |-> self.instructions,
     locals |-> self.locals, localOffset |-> self.localOffset,
     dataSegment |-> self.dataSegment, macros |-> self.macros,
     warnings |-> self.warnings, controlStack |-> self.controlStack, err |-> NoError,
     frames |-> << >>]

Instance(ps) ==
    [tokens |-> ps.tokens, pos |-> ps.pos, instructions |-> ps.instructions,
     locals |-> ps.locals, localOffset |-> ps.localOffset,
     dataSegment |-> ps.dataSegment, macros |-> ps.macros,
     warnings |-> ps.warnings, controlStack |-> ps.controlStack]

Frame(fn, at, x) == [fn |-> fn, at |-> at, x |-> x]

\* The method fn goes on at the point at, with the locals x, once what is
\* called next has returned.
later(ps, fn, at, x) ==
    IF ps.err.thrown THEN ps ELSE [ps EXCEPT !.frames = <<Frame(fn, at, x)>> \o @]

\* this.fn()
call(ps, fn) == later(ps, fn, "", << >>)

\* this.error(msg) inside the parser.
fail(ps, msg) == IF ps.err.thrown THEN ps ELSE [ps EXCEPT !.err = error(ps, msg)]

\* A property read on tokens[pos] when pos is beyond the tokens.
TypeError == CompileError("TypeError", 0, "Cannot read properties of undefined")

\* emit(op, arg); the index it returns is the length before the call.
emit(ps, op, arg) ==
    IF ps.err.thrown THEN ps ELSE [ps EXCEPT !.instructions = @ \o <<Ins(op, arg)>>]

\* this.instructions[idx].arg = target for every idx of the list.
Patch(ps, idxs, target) ==
    IF ps.err.thrown THEN ps
    ELSE [ps EXCEPT !.instructions =
             [k \in 1..Len(@) |->
                 IF \E j \in 1..Len(idxs) : idxs[j] = k - 1
                 THEN [@[k] EXCEPT !.arg = target] ELSE @[k]]]

\* addStringLiteral without the terminating zero.
addStringLiteralUnterminated(ps, s) ==
    IF ps.err.thrown THEN ps ELSE [ps EXCEPT !.dataSegment = @ \o s]

\* addStringLiteral(s): the offset is the length of the data before the call.
addStringLiteral(ps, s) ==
    IF ps.err.thrown THEN ps ELSE [ps EXCEPT !.dataSegment = @ \o s \o <<0>>]

\* peek(); the EOF token is never consumed by a statement, so that only
\* parseFunction can move pos beyond the tokens.
peek(ps) == ps.tokens[ps.pos + 1]

\* consume(type?, val?); "" stands for an argument left out.
consume(ps, type, val) ==
    IF ps.err.thrown THEN ps
    ELSE IF ps.pos >= Len(ps.tokens) THEN [ps EXCEPT !.err = TypeError]
    ELSE LET t == peek(ps)
         IN  IF /\ type = "SYMBOL" /\ val = ";"
                /\ \/ t.type = "KEYWORD"
                   \/ t.type = "ID" /\ t.value \in {"printf", "main"}
             THEN fail(ps, "Did you forget a semicolon before '" \o t.value \o "'?")
             ELSE IF type # "" /\ t.type # type
             THEN fail(ps, "Expected " \o type \o ", got " \o t.type \o " '" \o t.value \o "'")
             ELSE IF val # "" /\ t.value # val
             THEN fail(ps, "Expected '" \o val \o "', got '" \o t.value \o "'")
             ELSE [ps EXCEPT !.pos = @ + 1]

\* A control context; continueTarget -1 stands for undefined.
pushLoopContext(ps, continueTarget) ==
    IF ps.err.thrown THEN ps
    ELSE [ps EXCEPT !.controlStack =
             @ \o <<[type |-> "loop", breakJumps |-> << >>,
                     continueTarget |-> continueTarget, pendingContinues |-> << >>]>>]

pushSwitchContext(ps) ==
    IF ps.err.thrown THEN ps
    ELSE [ps EXCEPT !.controlStack =
             @ \o <<[type |-> "switch", breakJumps |-> << >>,
                     continueTarget |-> -1, pendingContinues |-> << >>]>>]

popContext(ps, expected) ==
    IF ps.err.thrown THEN ps
    ELSE IF ps.controlStack = << >>
    THEN fail(ps, "Invalid control flow structure")
    ELSE LET ctx == ps.controlStack[Len(ps.controlStack)]
             popped == [ps EXCEPT !.controlStack = Rest(@)]
         IN  IF ctx.type # expected THEN fail(popped, "Invalid control flow structure")
             ELSE popped

\* The index of the nearest loop context, 0 for null.
findNearestLoopContext(ps) ==
    LET loops == {d \in 1..Len(ps.controlStack) : ps.controlStack[d].type = "loop"}
    IN  IF loops = {} THEN 0 ELSE CHOOSE d \in loops : \A e \in loops : e <= d

\* patchBreaks(ctx, target), ctx the context at depth d of the stack.
patchBreaks(ps, d, target) ==
    IF ps.err.thrown THEN ps ELSE Patch(ps, ps.controlStack[d].breakJumps, target)

patchPendingContinues(ps, d, target) ==
    IF ps.err.thrown THEN ps
    ELSE [Patch(ps, ps.controlStack[d].pendingContinues, target)
             EXCEPT !.controlStack[d].pendingContinues = << >>]

\* fmtStr.match(/%[-+ #0-9.]*[dfcsx]/g).length, and with l?[dfcsx] for scanf.
FlagChars == {45, 43, 32, 35, 46} \cup (48..57)
TypeChars == {100, 102, 99, 115, 120}

RECURSIVE CountMatches(_, _, _)
CountMatches(s, i, withL) ==
    IF i > Len(s) THEN 0
    ELSE IF s[i] # 37 THEN CountMatches(s, i + 1, withL)
    ELSE LET j == i + 1 + Run(s, i + 1, FlagChars)
             at(k) == IF k <= Len(s) THEN s[k] ELSE -1
         IN  IF withL /\ at(j) = 108 /\ at(j + 1) \in TypeChars
             THEN 1 + CountMatches(s, j + 2, withL)
             ELSE IF at(j) \in TypeChars THEN 1 + CountMatches(s, j + 1, withL)
             ELSE CountMatches(s, i + 1, withL)

\* parseFloat and parseInt of a NUMBER token; the sources of the model hold
\* integer literals only.
Literal(codes) == LET x == ParseFloat(codes) IN IF IsNum(x) THEN x.v ELSE 0

MathOps == {"sin", "cos", "tan", "sqrt", "pow", "abs"}

MathOp(name) ==
    CASE name = "sin" -> "SIN"
      [] name = "cos" -> "COS"
      [] name = "tan" -> "TAN"
      [] name = "sqrt" -> "SQRT"
      [] name = "pow" -> "POW"
      [] OTHER -> "ABS"

TypeNames == {"int", "float", "char", "double"}

\* A binary level of the expression parser: operand, then (op operand emit)*.
\* The opcode a binary operator is compiled to.
BinaryOp(op) ==
    CASE op = "*" -> "MUL"
      [] op = "/" -> "DIV"
      [] op = "%" -> "MOD"
      [] op = "+" -> "ADD"
      [] op = "-" -> "SUB"
      [] op = "<" -> "LT"
      [] op = ">" -> "GT"
      [] op = "<=" -> "LE"
      [] op = ">=" -> "GE"
      [] op = "==" -> "EQ"
      [] OTHER -> "NEQ"

\* The loop of a binary level once an operand is parsed: the operator
\* before it, if any, is emitted, and an operator of the level after it is
\* consumed and followed by the next operand.
BinaryLoop(p, f, ops, operand) ==
    IF peek(p).value \in ops
    THEN call(later(consume(p, "", ""), f.fn, "operand", <<peek(p).value>>), operand)
    ELSE p

BinaryLevel(p, f, ops, operand) ==
    CASE f.at = "" -> call(later(p, f.fn, "operand", <<"">>), operand)
      [] f.at = "operand" /\ f.x[1] = "" -> BinaryLoop(p, f, ops, operand)
      [] OTHER -> BinaryLoop(emit(p, BinaryOp(f.x[1]), 0), f, ops, operand)

parseMultiplicative(p, f) == BinaryLevel(p, f, {"*", "/", "%"}, "parseUnary")

parseAdditive(p, f) == BinaryLevel(p, f, {"+", "-"}, "parseMultiplicative")

parseRelational(p, f) == BinaryLevel(p, f, {"<", ">", "<=", ">="}, "parseAdditive")

parseEquality(p, f) == BinaryLevel(p, f, {"==", "!="}, "parseRelational")

\* STORE and LOAD of a variable, in their 64-bit form for an element size 8.
StoreLoad(p, sym) ==
    IF sym.elementSize = 8
    THEN emit(emit(p, "STORE64", sym.offset), "LOAD64", sym.offset)
    ELSE emit(emit(p, "STORE", sym.offset), "LOAD", sym.offset)

\* t.type === 'ID' && next?.value === '='
IsAssignment(p) ==
    /\ peek(p).type = "ID"
    /\ p.pos + 1 < Len(p.tokens)
    /\ p.tokens[p.pos + 2].value = "="

parseAssignment(p, f) ==
    CASE f.at = "value" -> StoreLoad(p, p.locals[f.x[1]])
      [] f.at = "" /\ ~IsAssignment(p) -> call(p, "parseEquality")
      [] f.at = "" /\ IsAssignment(p) /\ peek(p).value \notin DOMAIN p.locals ->
           fail(consume(p, "", ""), "Undefined variable '" \o peek(p).value \o "'")
      [] OTHER ->
           call(later(consume(consume(p, "", ""), "SYMBOL", "="),
                      "parseAssignment", "value", <<peek(p).value>>),
                "parseAssignment")

parseExpression(p, f) == call(p, "parseAssignment")

parseUnary(p, f) ==
    CASE f.at = "not" -> emit(emit(p, "LIT", 0), "EQ", 0)
      [] f.at = "negate" -> emit(emit(p, "LIT", -1), "MUL", 0)
      [] f.at = "" /\ peek(p).value = "!" ->
           call(later(consume(p, "", ""), "parseUnary", "not", << >>), "parseUnary")
      [] f.at = "" /\ peek(p).value = "-" ->
           call(later(consume(p, "", ""), "parseUnary", "negate", << >>), "parseUnary")
      [] f.at = "" /\ peek(p).value = "+" -> call(consume(p, "", ""), "parseUnary")
      [] OTHER -> call(p, "parseTerm")

\* The branch parseTerm takes on a token, in the order of its tests.
TermKind(t) ==
    IF t.value = "(" THEN "paren"
    ELSE IF t.type = "KEYWORD" /\ t.value \in MathOps THEN "math"
    ELSE IF t.type \in {"NUMBER", "CHAR", "STRING", "ID"} THEN t.type
    ELSE IF t.value \in {"*", "&"} THEN t.value
    ELSE "unexpected"

\* &name
AddressOf(p, name) ==
    IF p.err.thrown THEN p
    ELSE IF name \notin DOMAIN p.locals THEN fail(p, "Undefined '" \o name \o "'")
    ELSE emit(p, "P_PUSH", p.locals[name].offset)

\* parseTerm on the token t, which p1 has consumed.
TermStart(p, t, p1) ==
    CASE TermKind(t) = "paren" ->
           call(later(p1, "parseTerm", "paren", << >>), "parseExpression")
      [] TermKind(t) = "math" ->
           call(later(consume(p1, "SYMBOL", "("), "parseTerm", "math.a", <<t.value>>),
                "parseExpression")
      [] TermKind(t) = "NUMBER" -> emit(p1, "LIT", Literal(t.codes))
      [] TermKind(t) = "CHAR" -> emit(p1, "LIT", t.codes[1])
      [] TermKind(t) = "STRING" ->
           emit(addStringLiteral(p1, t.codes), "LIT", Len(p1.dataSegment))
      [] TermKind(t) = "ID" /\ t.value \notin DOMAIN p.locals ->
           fail(p1, "Undefined '" \o t.value \o "'")
      [] TermKind(t) = "ID" /\ t.value \in DOMAIN p.locals /\ peek(p1).value = "[" ->
           call(later(emit(consume(p1, "", ""), "P_PUSH", p.locals[t.value].offset),
                      "parseTerm", "element.index", <<t.value>>),
                "parseExpression")
      [] TermKind(t) = "ID" /\ t.value \in DOMAIN p.locals /\ peek(p1).value # "[" ->
           emit(p1, IF p.locals[t.value].elementSize = 8 THEN "LOAD64" ELSE "LOAD",
                p.locals[t.value].offset)
      [] TermKind(t) = "*" -> call(later(p1, "parseTerm", "deref", << >>), "parseTerm")
      [] TermKind(t) = "&" -> AddressOf(consume(p1, "ID", ""), peek(p1).value)
      [] OTHER -> fail(p, "Unexpected token " \o t.value)

\* name[index] once the index is parsed and scaled: a store when '=' follows.
ElementAccess(b, sym) ==
    CASE b.err.thrown -> b
      [] ~b.err.thrown /\ peek(b).value = "=" ->
           call(later(consume(b, "", ""), "parseTerm", "element.value",
                      <<IF sym.elementSize = 8 THEN "S_IND64" ELSE "S_IND">>),
                "parseExpression")
      [] OTHER -> emit(b, IF sym.elementSize = 8 THEN "L_IND64" ELSE "L_IND", 0)

parseTerm(p, f) ==
    CASE f.at = "" -> TermStart(p, peek(p), consume(p, "", ""))
      [] f.at = "paren" -> consume(p, "SYMBOL", ")")
      [] f.at = "math.a" /\ f.x[1] = "pow" ->
           call(later(consume(p, "SYMBOL", ","), "parseTerm", "math.b", f.x),
                "parseExpression")
      [] f.at = "math.a" /\ f.x[1] # "pow" ->
           emit(consume(p, "SYMBOL", ")"), MathOp(f.x[1]), 0)
      [] f.at = "math.b" -> emit(consume(p, "SYMBOL", ")"), MathOp(f.x[1]), 0)
      [] f.at = "element.index" ->
           ElementAccess(consume(emit(emit(emit(p, "LIT", p.locals[f.x[1]].elementSize),
                                           "MUL", 0), "ADD", 0),
                                 "SYMBOL", "]"),
                         p.locals[f.x[1]])
      [] f.at = "element.value" -> emit(emit(p, f.x[1], 0), "LIT", 0)
      [] OTHER -> emit(p, "L_IND", 0)

\* '*'.repeat(n)
RECURSIVE Stars(_)
Stars(n) == IF n = 0 THEN "" ELSE "*" \o Stars(n - 1)

\* while (this.peek().value === '*') { this.consume(); ptrDepth++; }
RECURSIVE SkipStars(_)
SkipStars(p) ==
    IF p.err.thrown \/ peek(p).value # "*" THEN p ELSE SkipStars(consume(p, "", ""))

\* The end of a declarator d: a comma leads to the next one, and the list
\* ends with the semicolon when it is asked for.
DeclaratorEnd(d, x) ==
    CASE d.err.thrown -> d
      [] ~d.err.thrown /\ peek(d).value = "," ->
           later(consume(d, "", ""), "parseDeclarationList", "", <<x[1], x[2]>>)
      [] OTHER -> IF x[2] THEN consume(d, "SYMBOL", ";") ELSE d

\* The declarator once its symbol sym is in locals: the initialiser.
DeclaratorInit(p4, sym, isPtr, x) ==
    CASE peek(p4).value # "=" -> DeclaratorEnd(p4, x)
      [] peek(p4).value = "=" /\ sym.isArray -> fail(p4, "Array init not supported.")
      [] OTHER ->
           call(later(consume(p4, "", ""), "parseDeclarationList", "init",
                      <<x[1], x[2],
                        IF sym.elementSize = 8 /\ ~isPtr THEN "STORE64" ELSE "STORE",
                        sym.offset>>),
                "parseExpression")

\* The declarator name, parsed up to p3, of pointer depth ptrDepth.
DeclaratorSymbol(p3, name, ptrDepth, isArray, arraySize, x) ==
    LET isPtr == ptrDepth > 0
        elementSize == IF isPtr THEN 4 ELSE IF x[1] = "double" THEN 8 ELSE 4
        sizeBytes == IF isArray THEN arraySize * elementSize ELSE elementSize
        sym == [offset |-> p3.localOffset, type |-> x[1] \o Stars(ptrDepth),
                isArray |-> isArray, arraySize |-> arraySize,
                elementSize |-> elementSize]
    IN  IF p3.err.thrown THEN p3
        ELSE DeclaratorInit([p3 EXCEPT !.localOffset = @ + sizeBytes,
                                       !.locals = [n \in DOMAIN @ \cup {name} |->
                                                      IF n = name THEN sym ELSE @[n]]],
                            sym, isPtr, x)

\* The declarator name after its stars, with p2 the state after the name.
DeclaratorName(p2, name, ptrDepth, x) ==
    CASE p2.err.thrown -> p2
      [] ~p2.err.thrown /\ peek(p2).value = "[" ->
           DeclaratorSymbol(consume(consume(consume(p2, "", ""), "NUMBER", ""), "SYMBOL", "]"),
                            name, ptrDepth, TRUE, Literal(p2.tokens[p2.pos + 2].codes), x)
      [] OTHER -> DeclaratorSymbol(p2, name, ptrDepth, FALSE, 0, x)

\* A declarator from its stars on, p1 the state after them.
Declarator(p, p1, x) ==
    DeclaratorName(consume(p1, "ID", ""), peek(p1).value, p1.pos - p.pos, x)

\* parseDeclarationList(baseType, consumeSemicolon), the arguments in f.x.
parseDeclarationList(p, f) ==
    CASE f.at = "" -> Declarator(p, SkipStars(p), f.x)
      [] OTHER -> DeclaratorEnd(emit(p, f.x[3], f.x[4]), f.x)

\* '{' statements '}'
parseBlock(p, f) ==
    CASE f.at = "" -> later(consume(p, "SYMBOL", "{"), "parseBlock", "body", << >>)
      [] f.at = "body" /\ peek(p).value # "}" ->
           call(later(p, "parseBlock", "body", << >>), "parseStatement")
      [] OTHER -> consume(p, "SYMBOL", "}")

\* The statements parseStatement knows by their first word.
StatementWords ==
    {"if", "while", "do", "for", "switch", "break", "continue", "printf", "scanf", "return"}

\* The end of a loop whose last instruction is emitted: jzIdx, the breaks
\* and the pending continues are patched and the context is popped.
LoopEnd(p, jzIdx, d, continueTarget) ==
    popContext(patchPendingContinues(
                   patchBreaks(Patch(p, <<jzIdx>>, Len(p.instructions)),
                               d, Len(p.instructions)),
                   d, continueTarget),
               "loop")

ifStatement(p, f) ==
    CASE f.at = "if" ->
           call(later(consume(consume(p, "", ""), "SYMBOL", "("),
                      "parseStatement", "if.cond", << >>),
                "parseExpression")
      [] f.at = "if.cond" ->
           call(later(emit(consume(p, "SYMBOL", ")"), "JZ", 0),
                      "parseStatement", "if.then", <<Len(p.instructions)>>),
                "parseBlock")
      [] f.at = "if.then" /\ peek(p).value = "else" ->
           call(later(consume(Patch(emit(p, "JMP", 0), <<f.x[1]>>, Len(p.instructions) + 1),
                              "", ""),
                      "parseStatement", "if.else", <<Len(p.instructions)>>),
                "parseBlock")
      [] f.at = "if.then" /\ peek(p).value # "else" ->
           Patch(p, <<f.x[1]>>, Len(p.instructions))
      [] OTHER -> Patch(p, <<f.x[1]>>, Len(p.instructions))

\* x is <<condIdx, d>>, then <<condIdx, jzIdx, d>>.
whileStatement(p, f) ==
    CASE f.at = "while" ->
           call(later(consume(pushLoopContext(consume(p, "", ""), Len(p.instructions)),
                              "SYMBOL", "("),
                      "parseStatement", "while.cond",
                      <<Len(p.instructions), Len(p.controlStack) + 1>>),
                "parseExpression")
      [] f.at = "while.cond" ->
           call(later(emit(consume(p, "SYMBOL", ")"), "JZ", 0),
                      "parseStatement", "while.body",
                      <<f.x[1], Len(p.instructions), f.x[2]>>),
                "parseBlock")
      [] OTHER -> LoopEnd(emit(p, "JMP", f.x[1]), f.x[2], f.x[3], f.x[1])

\* do { } once 'while' is consumed; x is <<bodyIdx, d>>.
DoCondition(p2, x) ==
    IF p2.err.thrown THEN p2
    ELSE call(later(consume(patchPendingContinues(
                                [p2 EXCEPT !.controlStack[x[2]].continueTarget =
                                               Len(p2.instructions)],
                                x[2], Len(p2.instructions)),
                            "SYMBOL", "("),
                    "parseStatement", "do.cond", x),
              "parseExpression")

\* do { } while ( ) ; once JZ and JMP are emitted.
DoEnd(p5, jzIdx, d) ==
    popContext(patchBreaks(Patch(p5, <<jzIdx>>, Len(p5.instructions)),
                           d, Len(p5.instructions)),
               "loop")

doStatement(p, f) ==
    CASE f.at = "do" ->
           call(later(pushLoopContext(consume(p, "", ""), -1),
                      "parseStatement", "do.body",
                      <<Len(p.instructions), Len(p.controlStack) + 1>>),
                "parseBlock")
      [] f.at = "do.body" -> DoCondition(consume(p, "KEYWORD", "while"), f.x)
      [] OTHER ->
           DoEnd(emit(emit(consume(consume(p, "SYMBOL", ")"), "SYMBOL", ";"), "JZ", 0),
                      "JMP", f.x[1]),
                 Len(p.instructions), f.x[2])

\* for: the body, from ')' on; x is <<condIdx, jzIdx, bodyJmp, incIdx, d>>.
ForBody(p7, x) ==
    LET Enter(p8) ==
            call(later(Patch(p8, <<x[3]>>, Len(p8.instructions)),
                       "parseStatement", "for.body", x),
                 "parseBlock")
    IN  Enter(emit(consume(p7, "SYMBOL", ")"), "JMP", x[1]))

\* for: the increment, p6 the state after pushLoopContext(incIdx).
ForIncrement(p6, x) ==
    CASE p6.err.thrown -> p6
      [] ~p6.err.thrown /\ peek(p6).value # ")" ->
           call(later(p6, "parseStatement", "for.inc", x), "parseExpression")
      [] OTHER -> ForBody(p6, x)

\* for: from the JZ after the condition on, which p3 ends with.
ForTest(p3, condIdx) ==
    ForIncrement(pushLoopContext(emit(consume(emit(p3, "JZ", 0), "SYMBOL", ";"), "JMP", 0),
                                 Len(p3.instructions) + 2),
                 <<condIdx, Len(p3.instructions), Len(p3.instructions) + 1,
                   Len(p3.instructions) + 2, Len(p3.controlStack) + 1>>)

\* for: the condition, p2 the state after the initialiser and its ';'.
ForCondition(p2) ==
    CASE p2.err.thrown -> p2
      [] ~p2.err.thrown /\ peek(p2).value # ";" ->
           call(later(p2, "parseStatement", "for.cond", <<Len(p2.instructions)>>),
                "parseExpression")
      [] OTHER -> ForTest(emit(p2, "LIT", 1), Len(p2.instructions))

\* for: the initialiser, p1 the state after '('.
ForInit(p1) ==
    CASE p1.err.thrown -> p1
      [] ~p1.err.thrown /\ peek(p1).value \in TypeNames ->
           later(later(consume(p1, "", ""), "parseStatement", "for.init", << >>),
                 "parseDeclarationList", "", <<peek(p1).value, TRUE>>)
      [] ~p1.err.thrown /\ peek(p1).value \notin TypeNames \cup {";"} ->
           call(later(p1, "parseStatement", "for.initExpr", << >>), "parseExpression")
      [] OTHER -> ForCondition(consume(p1, "SYMBOL", ";"))

forStatement(p, f) ==
    CASE f.at = "for" -> ForInit(consume(consume(p, "", ""), "SYMBOL", "("))
      [] f.at = "for.init" -> ForCondition(p)
      [] f.at = "for.initExpr" -> ForCondition(consume(emit(p, "POP", 0), "SYMBOL", ";"))
      [] f.at = "for.cond" -> ForTest(p, f.x[1])
      [] f.at = "for.inc" -> ForBody(emit(p, "POP", 0), f.x)
      [] OTHER -> LoopEnd(emit(p, "JMP", f.x[4]), f.x[2], f.x[5], f.x[4])

\* break that registers its jump with the nearest loop, as continue does.
breakStatementOfLoop(p1) ==
    IF p1.err.thrown THEN p1
    ELSE IF p1.controlStack = << >> THEN fail(p1, "'break' not inside loop or switch")
    ELSE [emit(p1, "JMP", 0) EXCEPT
             !.controlStack[IF findNearestLoopContext(p1) = 0 THEN Len(p1.controlStack)
                            ELSE findNearestLoopContext(p1)].breakJumps =
                 @ \o <<Len(p1.instructions)>>]

\* break; once the semicolon is consumed.
breakStatement(p1) ==
    IF p1.err.thrown THEN p1
    ELSE IF p1.controlStack = << >> THEN fail(p1, "'break' not inside loop or switch")
    ELSE [emit(p1, "JMP", 0) EXCEPT
             !.controlStack[Len(p1.controlStack)].breakJumps = @ \o <<Len(p1.instructions)>>]

\* continue; once the semicolon is consumed, d the nearest loop context.
continueStatement(p1, d) ==
    IF p1.err.thrown THEN p1
    ELSE IF d = 0 THEN fail(p1, "'continue' not inside loop")
    ELSE IF p1.controlStack[d].continueTarget # -1
    THEN emit(p1, "JMP", p1.controlStack[d].continueTarget)
    ELSE [emit(p1, "JMP", 0) EXCEPT
             !.controlStack[d].pendingContinues = @ \o <<Len(p1.instructions)>>]

\* printf and scanf after the arguments; x is <<word, fmtStr, numArgs, i>>.
CallEnd(p3, x) ==
    consume(consume(emit(emit(addStringLiteral(p3, x[2]), "LIT", Len(p3.dataSegment)),
                         IF x[1] = "printf" THEN "PRINT" ELSE "SCANF", x[3]),
                    "SYMBOL", ")"),
            "SYMBOL", ";")

\* for (let i = 0; i < numArgs; i++) { consume(','); parseExpression(); }
CallArguments(p, x) ==
    CASE p.err.thrown -> p
      [] ~p.err.thrown /\ x[4] < x[3] ->
           call(later(consume(p, "SYMBOL", ","), "parseStatement", "call.args",
                      <<x[1], x[2], x[3], x[4] + 1>>),
                "parseExpression")
      [] OTHER -> CallEnd(p, x)

\* printf and scanf, p1 the state after '('.
callStatement(word, p1) ==
    CallArguments(consume(p1, "STRING", ""),
                  <<word, peek(p1).codes, CountMatches(peek(p1).codes, 1, word = "scanf"), 0>>)

returnStatement(p, f) ==
    CASE f.at = "return" /\ peek(consume(p, "", "")).value # ";" ->
           call(later(consume(p, "", ""), "parseStatement", "return.value", << >>),
                "parseExpression")
      [] f.at = "return" /\ peek(consume(p, "", "")).value = ";" ->
           emit(consume(consume(p, "", ""), "SYMBOL", ";"), "HALT", 0)
      [] OTHER -> emit(consume(p, "SYMBOL", ";"), "HALT", 0)

\* The branch parseStatement takes on the token t.
StatementWord(t) ==
    IF t.value \in TypeNames THEN "declaration"
    ELSE IF t.value \in StatementWords THEN t.value
    ELSE "expression"

\* parseStatement from its first token on.
StatementStart(p, word) ==
    CASE word = "declaration" ->
           later(consume(p, "", ""), "parseDeclarationList", "", <<peek(p).value, TRUE>>)
      [] word = "if" -> ifStatement(p, Frame("parseStatement", "if", << >>))
      [] word = "while" -> whileStatement(p, Frame("parseStatement", "while", << >>))
      [] word = "do" -> doStatement(p, Frame("parseStatement", "do", << >>))
      [] word = "for" -> forStatement(p, Frame("parseStatement", "for", << >>))
      [] word = "switch" -> call(p, "parseSwitchStatement")
      [] word = "break" -> breakStatement(consume(consume(p, "", ""), "SYMBOL", ";"))
      [] word = "continue" ->
           continueStatement(consume(consume(p, "", ""), "SYMBOL", ";"),
                             findNearestLoopContext(p))
      [] word \in {"printf", "scanf"} ->
           callStatement(word, consume(consume(p, "", ""), "SYMBOL", "("))
      [] word = "return" -> returnStatement(p, Frame("parseStatement", "return", << >>))
      [] OTHER -> call(later(p, "parseStatement", "expression.value", << >>),
                       "parseExpression")

parseStatement(p, f) ==
    CASE f.at = "" -> StatementStart(p, StatementWord(peek(p)))
      [] f.at \in {"if.cond", "if.then", "if.else"} -> ifStatement(p, f)
      [] f.at \in {"while.cond", "while.body"} -> whileStatement(p, f)
      [] f.at \in {"do.body", "do.cond"} -> doStatement(p, f)
      [] f.at \in {"for.init", "for.initExpr", "for.cond", "for.inc", "for.body"} ->
           forStatement(p, f)
      [] f.at = "call.args" -> CallArguments(p, f.x)
      [] f.at = "return.value" -> returnStatement(p, f)
      [] OTHER -> emit(consume(p, "SYMBOL", ";"), "POP", 0)

\* parseCaseConstant(): the state after it and the constant.
parseCaseConstant(ps) ==
    LET t == peek(ps)
        p1 == consume(ps, "", "")
        p2 == consume(p1, "NUMBER", "")
    IN  IF ps.err.thrown THEN [ps |-> ps, value |-> 0]
        ELSE IF t.type = "NUMBER" THEN [ps |-> p1, value |-> Literal(t.codes)]
        ELSE IF t.type = "CHAR" THEN [ps |-> p1, value |-> t.codes[1]]
        ELSE IF t.value = "-"
        THEN [ps |-> p2, value |-> IF p2.err.thrown THEN 0 ELSE 0 - Literal(peek(p1).codes)]
        ELSE [ps |-> fail(ps, "Expected constant in case label, got " \o t.value),
              value |-> 0]

\* A case label once its constant c is parsed; x is
\* <<skipBodiesJmp, d, caseEntries, defaultTarget>>, -1 for the null target.
CaseLabel(c, x) ==
    later(consume(c.ps, "SYMBOL", ":"), "parseSwitchStatement", "body",
          <<x[1], x[2],
            x[3] \o <<[value |-> c.value, target |-> Len(c.ps.instructions)]>>,
            x[4]>>)

\* One turn of the loop over the body of a switch: a label or a statement.
SwitchBody(p, x) ==
    CASE peek(p).value = "case" -> CaseLabel(parseCaseConstant(consume(p, "", "")), x)
      [] peek(p).value = "default" ->
           later(consume(consume(p, "", ""), "SYMBOL", ":"), "parseSwitchStatement", "body",
                 <<x[1], x[2], x[3], Len(p.instructions)>>)
      [] OTHER -> call(later(p, "parseSwitchStatement", "body", x), "parseStatement")

\* The dispatch of a switch: the tests of the entries from the k-th on.
RECURSIVE SwitchDispatch(_, _, _)
SwitchDispatch(p, caseEntries, k) ==
    LET Test(q) ==
            LET Skip(r) == Patch(r, <<Len(q.instructions)>>, Len(r.instructions))
            IN  Skip(emit(emit(emit(q, "JZ", 0), "POP", 0), "JMP", caseEntries[k].target))
    IN  IF k > Len(caseEntries) THEN p
        ELSE SwitchDispatch(Test(emit(emit(emit(p, "DUP", 0), "LIT", caseEntries[k].value),
                                      "EQ", 0)),
                            caseEntries, k + 1)

\* The switch from the exit jump on, p3 the state after '}'.
SwitchEnd(p3, x) ==
    LET Exit(p7) ==
            popContext(patchBreaks(Patch(p7, <<Len(p3.instructions)>>, Len(p7.instructions)),
                                   x[2], Len(p7.instructions)),
                       "switch")
        Default(p6) ==
            IF x[4] # -1 THEN emit(emit(p6, "POP", 0), "JMP", x[4]) ELSE emit(p6, "POP", 0)
        Dispatch(p4) ==
            SwitchDispatch(Patch(p4, <<x[1]>>, Len(p4.instructions)), x[3], 1)
    IN  IF p3.err.thrown THEN p3
        ELSE Exit(Default(Dispatch(emit(p3, "JMP", 0))))

\* The switch once its subject is parsed and ')' consumed.
SwitchOpen(p1) ==
    later(consume(pushSwitchContext(emit(p1, "JMP", 0)), "SYMBOL", "{"),
          "parseSwitchStatement", "body",
          <<Len(p1.instructions), Len(p1.controlStack) + 1, << >>, -1>>)

parseSwitchStatement(p, f) ==
    CASE f.at = "" ->
           call(later(consume(consume(p, "", ""), "SYMBOL", "("),
                      "parseSwitchStatement", "subject", << >>),
                "parseExpression")
      [] f.at = "subject" -> SwitchOpen(consume(p, "SYMBOL", ")"))
      [] f.at = "body" /\ peek(p).value # "}" -> SwitchBody(p, f.x)
      [] OTHER -> SwitchEnd(consume(p, "SYMBOL", "}"), f.x)

\* while (this.peek().value !== ')') this.pos++;
RECURSIVE SkipParameters(_)
SkipParameters(p) ==
    IF p.err.thrown THEN p
    ELSE IF p.pos >= Len(p.tokens) THEN [p EXCEPT !.err = TypeError]
    ELSE IF peek(p).value = ")" THEN p
    ELSE SkipParameters([p EXCEPT !.pos = @ + 1])

\* parseFunction without the HALT after the closing brace.
parseFunctionWithoutHalt(p, f) ==
    CASE f.at = "" ->
           call(later(consume(SkipParameters(consume(consume(consume(p, "KEYWORD", ""),
                                                             "ID", ""),
                                                     "SYMBOL", "(")),
                              "SYMBOL", ")"),
                      "parseFunction", "body", << >>),
                "parseBlock")
      [] OTHER -> p

parseFunction(p, f) ==
    CASE f.at = "" ->
           call(later(consume(SkipParameters(consume(consume(consume(p, "KEYWORD", ""),
                                                             "ID", ""),
                                                     "SYMBOL", "(")),
                              "SYMBOL", ")"),
                      "parseFunction", "body", << >>),
                "parseBlock")
      [] OTHER -> emit(p, "HALT", 0)

\* while (this.peek().type !== 'EOF') this.parseFunction();
parseFunctions(p, f) ==
    IF peek(p).type = "EOF" THEN p
    ELSE call(later(p, "compile", "functions", << >>), "parseFunction")

\* The method of the frame f goes on in the state p.
dispatch(p, f) ==
    CASE f.fn = "compile" -> parseFunctions(p, f)
      [] f.fn = "parseFunction" -> parseFunction(p, f)
      [] f.fn = "parseBlock" -> parseBlock(p, f)
      [] f.fn = "parseStatement" -> parseStatement(p, f)
      [] f.fn = "parseDeclarationList" -> parseDeclarationList(p, f)
      [] f.fn = "parseSwitchStatement" -> parseSwitchStatement(p, f)
      [] f.fn = "parseExpression" -> parseExpression(p, f)
      [] f.fn = "parseAssignment" -> parseAssignment(p, f)
      [] f.fn = "parseEquality" -> parseEquality(p, f)
      [] f.fn = "parseRelational" -> parseRelational(p, f)
      [] f.fn = "parseAdditive" -> parseAdditive(p, f)
      [] f.fn = "parseMultiplicative" -> parseMultiplicative(p, f)
      [] f.fn = "parseUnary" -> parseUnary(p, f)
      [] OTHER -> parseTerm(p, f)

\* One step of the parser: the top frame is taken off and its method goes on.
resume(ps) == dispatch([ps EXCEPT !.frames = Tail(@)], Head(ps.frames))

\* The parser runs until its frames are used up or an exception is thrown;
\* 2^ParseDepth steps are more than any source of the model takes.
ParseDepth == 11

RECURSIVE runParser(_, _)
runParser(level, ps) ==
    IF ps.frames = << >> \/ ps.err.thrown THEN ps
    ELSE IF level = 0 THEN resume(ps)
    ELSE runParser(level - 1, runParser(level - 1, ps))

\* What compile hands back: the instance after the call and what the
\* caller gets, the result {bytecode, data, warnings} or the exception.
Compiled(done) ==
    IF done.err.thrown
    THEN [self |-> Instance(done), err |-> done.err, bytecode |-> << >>, data |-> << >>,
          warnings |-> << >>]
    ELSE [self |-> Instance(done), err |-> NoError,
          bytecode |-> done.instructions, data |-> done.dataSegment,
          warnings |-> done.warnings]

Failed(inst, err) ==
    [self |-> inst, err |-> err, bytecode |-> << >>, data |-> << >>, warnings |-> << >>]

\* compile from the parser on, the tokens of self expanded.
CompileTokens(self) ==
    LET n == Len(self.tokens)
        eof == Token("EOF", <<69, 79, 70>>, IF n > 0 THEN self.tokens[n].line ELSE 1)
    IN  Compiled(runParser(ParseDepth,
                       [Parser(self) EXCEPT !.tokens = @ \o <<eof>>, !.pos = 0,
                                            !.frames = <<Frame("compile", "functions", << >>)>>]))

\* compile from expandMacros on, lexed the outcome of tokenizeString.
CompileLexed(self, lexed) ==
    LET After(expanded) ==
            IF expanded.err.thrown THEN Failed([self EXCEPT !.tokens = lexed.tokens], expanded.err)
            ELSE CompileTokens(expanded.self)
    IN  IF lexed.err.thrown THEN Failed(self, lexed.err)
        ELSE After(expandMacros([self EXCEPT !.tokens = lexed.tokens]))

\* compile from tokenizeString on, pre the outcome of preprocess.
CompilePreprocessed(pre) ==
    IF pre.err.thrown THEN Failed(pre.self, pre.err)
    ELSE CompileLexed(pre.self, tokenizeString(pre.self, pre.out, 1))

\* compile(source)
compile(self, source) ==
    CompilePreprocessed(preprocess([self EXCEPT !.warnings = << >>, !.macros = << >>,
                                     !.instructions = << >>, !.dataSegment = << >>,
                                     !.locals = << >>, !.localOffset = 0,
                                     !.controlStack = << >>],
                        source))

\* ----------------------------------------------------------------- sources
\* The C sources handed to gcc, as character codes.

\* int main(){ return 0; }
SrcReturn ==
    <<105, 110, 116, 32, 109, 97, 105, 110, 40, 41, 123, 32, 114, 101, 116, 117, 114, 110,
      32, 48, 59, 32, 125>>

\* int main(){ int x=2; switch(x){ case 1: printf("a"); break; case 2:
\*   printf("b"); case 3: printf("c"); break; default: printf("d"); } }
SrcSwitch ==
    <<105, 110, 116, 32, 109, 97, 105, 110, 40, 41, 123, 32, 105, 110, 116, 32, 120, 61,
      50, 59, 32, 115, 119, 105, 116, 99, 104, 40, 120, 41, 123, 32, 99, 97, 115, 101, 32,
      49, 58, 32, 112, 114, 105, 110, 116, 102, 40, 34, 97, 34, 41, 59, 32, 98, 114, 101,
      97, 107, 59, 32, 99, 97, 115, 101, 32, 50, 58, 32, 112, 114, 105, 110, 116, 102, 40,
      34, 98, 34, 41, 59, 32, 99, 97, 115, 101, 32, 51, 58, 32, 112, 114, 105, 110, 116,
      102, 40, 34, 99, 34, 41, 59, 32, 98, 114, 101, 97, 107, 59, 32, 100, 101, 102, 97,
      117, 108, 116, 58, 32, 112, 114, 105, 110, 116, 102, 40, 34, 100, 34, 41, 59, 32,
      125, 32, 125>>

\* int main(){ int x=-1; switch(x){ case -1: printf("n"); } }
SrcSwitchNegative ==
    <<105, 110, 116, 32, 109, 97, 105, 110, 40, 41, 123, 32, 105, 110, 116, 32, 120, 61,
      45, 49, 59, 32, 115, 119, 105, 116, 99, 104, 40, 120, 41, 123, 32, 99, 97, 115, 101,
      32, 45, 49, 58, 32, 112, 114, 105, 110, 116, 102, 40, 34, 110, 34, 41, 59, 32, 125,
      32, 125>>

\* int main(){ int i; for(i=0;i<5;i=i+1){ if(i==2) continue; if(i==4) break;
\*   printf("%d", i);} }
SrcFor ==
    <<105, 110, 116, 32, 109, 97, 105, 110, 40, 41, 123, 32, 105, 110, 116, 32, 105, 59,
      32, 102, 111, 114, 40, 105, 61, 48, 59, 105, 60, 53, 59, 105, 61, 105, 43, 49, 41,
      123, 32, 105, 102, 40, 105, 61, 61, 50, 41, 32, 99, 111, 110, 116, 105, 110, 117,
      101, 59, 32, 105, 102, 40, 105, 61, 61, 52, 41, 32, 98, 114, 101, 97, 107, 59, 32,
      112, 114, 105, 110, 116, 102, 40, 34, 37, 100, 34, 44, 32, 105, 41, 59, 125, 32, 125>>

\* int main(){ int i; for(i=0;i<5;i=i+1){ if(i==2){ continue; } if(i==4){
\*   break; } printf("%d", i);} }
SrcForBraced ==
    <<105, 110, 116, 32, 109, 97, 105, 110, 40, 41, 123, 32, 105, 110, 116, 32, 105, 59,
      32, 102, 111, 114, 40, 105, 61, 48, 59, 105, 60, 53, 59, 105, 61, 105, 43, 49, 41,
      123, 32, 105, 102, 40, 105, 61, 61, 50, 41, 123, 32, 99, 111, 110, 116, 105, 110,
      117, 101, 59, 32, 125, 32, 105, 102, 40, 105, 61, 61, 52, 41, 123, 32, 98, 114, 101,
      97, 107, 59, 32, 125, 32, 112, 114, 105, 110, 116, 102, 40, 34, 37, 100, 34, 44, 32,
      105, 41, 59, 125, 32, 125>>

\* int main(){\n  x = 1;\n}
SrcUndefined ==
    <<105, 110, 116, 32, 109, 97, 105, 110, 40, 41, 123, 10, 32, 32, 120, 32, 61, 32, 49,
      59, 10, 125>>

\* #ifdef X
SrcIfdef ==
    <<35, 105, 102, 100, 101, 102, 32, 88>>

\* '
SrcQuote ==
    <<39>>

\* int main(
SrcOpen ==
    <<105, 110, 116, 32, 109, 97, 105, 110, 40>>

\* The empty source.
SrcEmpty == << >>

Sources ==
    {SrcReturn, SrcSwitch, SrcSwitchNegative, SrcFor, SrcForBraced,
     SrcUndefined, SrcIfdef, SrcQuote, SrcOpen}

\* The budget of one run of the scheduler's chunk (5000 in the shell).
RunCycles == 8

\* What compile handed to its caller: the exception, or the result.
Outcome(r) ==
    [err |-> r.err, bytecode |-> r.bytecode, data |-> r.data, warnings |-> r.warnings]

\* gcc with writeExecutable moved out of the try block: a.out is written
\* from what the instance holds, whether compile threw or not.
gccKeepsPartialOutput(self, file, source) ==
    LET Compiled2(r) ==
            [self |-> r.self,
             aout |-> [exists |-> TRUE, bytecode |-> r.self.instructions,
                       dataSegment |-> r.self.dataSegment],
             outcome |-> Outcome(r),
             stderr |-> IF r.err.thrown THEN <<r.err>> ELSE << >>]
    IN  Compiled2(compile(self, source))

\* The shell's gcc command on a file holding the source: compile, and on
\* success writeExecutable('a.out', bytecode, data); the exception is caught
\* and its message written to stderr. The result is the instance and the
\* file a.out after the command, the outcome of compile and what stderr got.
gcc(self, file, source) ==
    LET Returned(r) ==
            [self |-> r.self,
             aout |-> IF r.err.thrown THEN file
                      ELSE [exists |-> TRUE, bytecode |-> r.bytecode,
                            dataSegment |-> r.data],
             outcome |-> Outcome(r),
             stderr |-> IF r.err.thrown THEN <<r.err>> ELSE << >>]
    IN  Returned(compile(self, source))

\* gcc <file> on the terminal. The observation lists the source, the outcome
\* of compile and the errors written to stderr.
Gcc(sources) ==
    LET Written(source, r) ==
            /\ compiler' = r.self
            /\ aout' = r.aout
            /\ last' = [Observed("gcc", 0) EXCEPT !.list = <<source, r.outcome, r.stderr>>]
    IN  /\ \E source \in sources : Written(source, gcc(compiler, aout, source))
        /\ UNCHANGED <<vms, processes, nextPid, listeners, shell>>

\* ./a.out: the node the file system resolves, when gcc wrote one.
Executables == IF aout.exists THEN {Exe(aout.bytecode, aout.dataSegment)} ELSE {}

\* The compiler and one process made from a.out, run chunk by chunk.
NextGcc ==
    \/ Gcc(Sources)
    \/ CreateProcess(Executables, 1)
    \/ Step({RunCycles})

SpecGcc == Init /\ [][NextGcc]_vars

\* ---------------------------------------------------------------------
\* String literals, from the compiler's data segment to the VM's output.

\* The longest sequence of literals printed by one source.
MaxLiterals == 3

\* "", "%d" and two characters of which one has a code above 127.
Literals == {<< >>, <<37, 100>>, <<233, 98>>}

LiteralSeqs == UNION {[1..n -> Literals] : n \in 1..MaxLiterals}

\* printf("%s","<literal>"); for every literal in turn.
RECURSIVE PrintStatements(_)
PrintStatements(lits) ==
    IF lits = << >> THEN << >>
    ELSE <<112, 114, 105, 110, 116, 102, 40, 34, 37, 115, 34, 44, 34>> \o Head(lits)
           \o <<34, 41, 59>> \o PrintStatements(Tail(lits))

\* int main(){ printf("%s","<literal>"); ... }
PrintSource(lits) ==
    <<105, 110, 116, 32, 109, 97, 105, 110, 40, 41, 123>> \o PrintStatements(lits) \o <<125>>

LiteralSources == {PrintSource(lits) : lits \in LiteralSeqs}

\* gcc on one of the sources, before a.out is run.
CompileLiterals == nextPid = FirstPid /\ Gcc(LiteralSources)

NextLiterals ==
    \/ CompileLiterals
    \/ CreateProcess(Executables, 1)
    \/ Step({1, RunCycles})

SpecLiterals == Init /\ [][NextLiterals]_vars

\* The offsets the compiler emitted: the arguments of the LIT instructions,
\* each the value addStringLiteral returned, in the order of the calls.
Offsets(code) ==
    LET lit == SelectSeq(code, LAMBDA ins : ins.op = "LIT")
    IN  [i \in 1..Len(lit) |-> lit[i].arg]

\* C26. String literals round-trip through the data segment: when a.out,
\* compiled from a source that prints the literals l1 .. ln with the format
\* "%s", is loaded into a new process, the compiler has interned l1, "%s",
\* l2, "%s", ... in this order, the zero-terminated read of the VM's memory at
\* the offset returned for each of them yields exactly that literal, and
\* running the process writes exactly l1, .., ln.
LiteralsRoundTrip ==
    [][(last.op = "gcc" /\ last'.op = "createProcess") =>
          \A lits \in LiteralSeqs :
             last.list[1] = PrintSource(lits) =>
                /\ Len(Offsets(vms'[last'.pid].code)) = 2 * Len(lits)
                /\ \A i \in 1..Len(lits) :
                      /\ readString(vms'[last'.pid].memory,
                                    Num(Offsets(vms'[last'.pid].code)[2 * i - 1])) = lits[i]
                      /\ readString(vms'[last'.pid].memory,
                                    Num(Offsets(vms'[last'.pid].code)[2 * i])) = <<37, 115>>
                /\ step(vms'[last'.pid], Len(vms'[last'.pid].code) + 1).vm.out
                      = [i \in 1..Len(lits) |-> PrintOut(lits[i])]]_vars

\* A process printed three literals, the empty one in the middle.
PrintedThreeLiterals ==
    \E p \in DOMAIN vms :
       /\ last.op = "step"
       /\ vms[p].out = <<PrintOut(<<233, 98>>), PrintOut(<< >>), PrintOut(<<37, 100>>)>>

\* ---------------------------------------------------------------------
\* Control flow: programs that nest if, if/else, while, do-while, for and
\* switch around break, continue and printf, and where their jumps belong.

\* The deepest nesting of constructs in a program.
MaxNesting == 2

Leaf(k) == [k |-> k, body |-> << >>, other |-> << >>]
Node(k, body, other) == [k |-> k, body |-> body, other |-> other]

Leaves == {Leaf("break"), Leaf("continue"), Leaf("print")}
Constructs == {"if", "while", "do", "for", "switch"}

\* The statements nested at most d deep; the then branch of an if/else
\* holds a break and the statement is in its else branch.
RECURSIVE Nest(_)
Nest(d) ==
    IF d = 0 THEN Leaves
    ELSE LET Around(inner) ==
                 inner \cup {Node(k, <<n>>, << >>) : k \in Constructs, n \in inner}
                       \cup {Node("ifelse", <<Leaf("break")>>, <<n>>) : n \in inner}
         IN  Around(Nest(d - 1))

\* A loop or switch whose body is a construct followed by a break or a continue.
Followed ==
    {Node(k, <<n, l>>, << >>) :
        k \in {"while", "do", "for", "switch"},
        n \in {m \in Nest(1) : m.k \in {"while", "do", "switch"}},
        l \in {Leaf("break"), Leaf("continue")}}

ControlPrograms == Nest(MaxNesting) \cup Followed

\* The C text of a sequence of statements.
RECURSIVE Render(_)
Render(nodes) ==
    IF nodes = << >> THEN << >>
    ELSE (CASE Head(nodes).k = "break" -> <<98, 114, 101, 97, 107, 59>>
            [] Head(nodes).k = "continue" -> <<99, 111, 110, 116, 105, 110, 117, 101, 59>>
            [] Head(nodes).k = "print" -> <<112, 114, 105, 110, 116, 102, 40, 34, 97, 34, 41, 59>>
            [] Head(nodes).k = "if" ->
                 <<105, 102, 40, 49, 41, 123>> \o Render(Head(nodes).body) \o <<125>>
            [] Head(nodes).k = "ifelse" ->
                 <<105, 102, 40, 49, 41, 123>> \o Render(Head(nodes).body)
                    \o <<125, 101, 108, 115, 101, 123>> \o Render(Head(nodes).other) \o <<125>>
            [] Head(nodes).k = "while" ->
                 <<119, 104, 105, 108, 101, 40, 49, 41, 123>> \o Render(Head(nodes).body)
                    \o <<125>>
            [] Head(nodes).k = "do" ->
                 <<100, 111, 123>> \o Render(Head(nodes).body)
                    \o <<125, 119, 104, 105, 108, 101, 40, 49, 41, 59>>
            [] Head(nodes).k = "for" ->
                 <<102, 111, 114, 40, 59, 59, 41, 123>> \o Render(Head(nodes).body) \o <<125>>
            [] Head(nodes).k = "switch" ->
                 <<115, 119, 105, 116, 99, 104, 40, 49, 41, 123, 99, 97, 115, 101, 32, 49, 58>>
                    \o Render(Head(nodes).body) \o <<125>>)
         \o Render(Tail(nodes))

\* int main(){ <statement> }
ControlSource(prog) ==
    <<105, 110, 116, 32, 109, 97, 105, 110, 40, 41, 123>> \o Render(<<prog>>) \o <<125>>

\* compile(source) on the shared instance, for the source of one of the
\* programs; the observation lists the program, its source and what the
\* caller got.
Compile(programs) ==
    LET Returned(prog, r) ==
            /\ compiler' = r.self
            /\ last' = [Observed("compile", 0) EXCEPT
                           !.list = <<prog, ControlSource(prog), Outcome(r)>>]
    IN  /\ \E prog \in programs : Returned(prog, compile(compiler, ControlSource(prog)))
        /\ UNCHANGED <<vms, processes, nextPid, listeners, shell, aout>>

\* The first compile of the instance, and the one after the compile of a
\* lone break, continue or printf.
NextControl ==
    /\ \/ last.op = "none"
       \/ last.op = "compile" /\ last.list[1] \in Leaves
    /\ Compile(ControlPrograms)

SpecControl == Init /\ [][NextControl]_vars

\* C27. Jump targets are in range: in the bytecode of every successful
\* compile, the argument of every JMP and every JZ is an index of an
\* instruction of that bytecode, 0 <= arg < length.
JumpTargetsInRange ==
    [][(last'.op = "compile" /\ ~last'.list[3].err.thrown) =>
          \A i \in 1..Len(last'.list[3].bytecode) :
             last'.list[3].bytecode[i].op \in {"JMP", "JZ"} =>
                last'.list[3].bytecode[i].arg \in 0..(Len(last'.list[3].bytecode) - 1)]_vars

\* A for loop around a switch that holds a continue, then a break, compiled.
CompiledNestedJumps ==
    /\ last.op = "compile"
    /\ ~last.list[3].err.thrown
    /\ last.list[1] = Node("for", <<Node("switch", <<Leaf("continue")>>, << >>),
                                    Leaf("break")>>, << >>)
    /\ Len(SelectSeq(last.list[3].bytecode, LAMBDA ins : ins.op \in {"JMP", "JZ"})) = 10

\* The number of instructions of a sequence of statements: the conditions
\* are the constant 1 (one LIT), printf("a") is LIT and PRINT, a for(;;) has
\* LIT 1, JZ, JMP body, JMP cond before its body and JMP inc after it, and a
\* switch on 1 with one case has LIT, JMP before its body and JMP, DUP, LIT,
\* EQ, JZ, POP, JMP, POP after it.
RECURSIVE Size(_)
Size(nodes) ==
    IF nodes = << >> THEN 0
    ELSE (CASE Head(nodes).k \in {"break", "continue"} -> 1
            [] Head(nodes).k = "print" -> 2
            [] Head(nodes).k = "if" -> 2 + Size(Head(nodes).body)
            [] Head(nodes).k = "ifelse" -> 3 + Size(Head(nodes).body) + Size(Head(nodes).other)
            [] Head(nodes).k \in {"while", "do"} -> 3 + Size(Head(nodes).body)
            [] Head(nodes).k = "for" -> 5 + Size(Head(nodes).body)
            [] Head(nodes).k = "switch" -> 10 + Size(Head(nodes).body))
         + Size(Tail(nodes))

\* Where the jumps of break and continue belong, <<index, target, word>>, for
\* statements that start at index s inside a construct whose breaks go to
\* brk and whose continues go to cont (-1: there is none). A break leaves
\* the innermost loop or switch for the instruction after it; a continue goes
\* to the condition of the innermost while or do-while and to the increment
\* clause of a for, and a switch leaves it as it is.
RECURSIVE Jumps(_, _, _, _)
Jumps(nodes, s, brk, cont) ==
    IF nodes = << >> THEN {}
    ELSE (CASE Head(nodes).k = "break" -> {<<s, brk, "break">>}
            [] Head(nodes).k = "continue" -> {<<s, cont, "continue">>}
            [] Head(nodes).k = "print" -> {}
            [] Head(nodes).k = "if" -> Jumps(Head(nodes).body, s + 2, brk, cont)
            [] Head(nodes).k = "ifelse" ->
                 Jumps(Head(nodes).body, s + 2, brk, cont)
                    \cup Jumps(Head(nodes).other, s + 3 + Size(Head(nodes).body), brk, cont)
            [] Head(nodes).k = "while" ->
                 Jumps(Head(nodes).body, s + 2, s + Size(<<Head(nodes)>>), s)
            [] Head(nodes).k = "do" ->
                 Jumps(Head(nodes).body, s, s + Size(<<Head(nodes)>>),
                       s + Size(Head(nodes).body))
            [] Head(nodes).k = "for" ->
                 Jumps(Head(nodes).body, s + 4, s + Size(<<Head(nodes)>>), s + 3)
            [] Head(nodes).k = "switch" ->
                 Jumps(Head(nodes).body, s + 2, s + Size(<<Head(nodes)>>), cont))
         \cup Jumps(Tail(nodes), s + Size(<<Head(nodes)>>), brk, cont)

\* The jumps of a program that have no construct to go to.
Stray(jumps) == {j \in jumps : j[2] = -1}

\* The message for the first stray jump.
StrayMessage(jumps) ==
    IF (CHOOSE j \in Stray(jumps) : \A o \in Stray(jumps) : j[1] <= o[1])[3] = "break"
    THEN "'break' not inside loop or switch"
    ELSE "'continue' not inside loop"

\* C28 for the outcome r of compile on a program with these jumps.
Resolved(r, jumps) ==
    IF Stray(jumps) # {}
    THEN /\ r.err.thrown
         /\ r.err.kind = "Line"
         /\ r.err.text = StrayMessage(jumps)
    ELSE /\ ~r.err.thrown
         /\ \A j \in jumps : r.bytecode[j[1] + 1] = Ins("JMP", j[2])

\* C28. Every break and continue is resolved against the right construct:
\* in the bytecode of a successful compile the JMP of a break targets the
\* first instruction after the innermost enclosing loop or switch and the JMP
\* of a continue targets the continue point of the innermost enclosing loop,
\* whatever switches are in between (the condition of a while or do-while,
\* the increment clause of a for), so that no placeholder is left; a break
\* outside any loop or switch and a continue outside any loop are compile
\* errors.
BreakAndContinueResolved ==
    [][last'.op = "compile" =>
          Resolved(last'.list[3], Jumps(<<last'.list[1]>>, 0, -1, -1))]_vars

\* A do-while around a switch that holds a continue, compiled: the continue
\* was pending until the condition and skips the switch.
ContinueLeftTheSwitch ==
    /\ last.op = "compile"
    /\ ~last.list[3].err.thrown
    /\ last.list[1] = Node("do", <<Node("switch", <<Leaf("continue")>>, << >>)>>, << >>)
    /\ last.list[3].bytecode[3] = Ins("JMP", 11)

\* ---------------------------------------------------------------------
\* Expression statements, compiled and run on a stack that is not empty.

\* One expression of every level of the expression parser.
Expressions ==
    {
     <<120, 32, 61, 32, 49>>,   \* x = 1
     <<120, 32, 61, 32, 120, 32, 61, 32, 50>>,   \* x = x = 2
     <<97, 91, 49, 93, 32, 61, 32, 53>>,   \* a[1] = 5
     <<97, 91, 48, 93>>,   \* a[0]
     <<49, 32, 61, 61, 32, 50>>,   \* 1 == 2
     <<49, 32, 33, 61, 32, 50>>,   \* 1 != 2
     <<49, 32, 60, 32, 50>>,   \* 1 < 2
     <<49, 32, 62, 32, 50>>,   \* 1 > 2
     <<49, 32, 60, 61, 32, 50>>,   \* 1 <= 2
     <<49, 32, 62, 61, 32, 50>>,   \* 1 >= 2
     <<49, 32, 43, 32, 50>>,   \* 1 + 2
     <<49, 32, 45, 32, 50>>,   \* 1 - 2
     <<50, 32, 42, 32, 51>>,   \* 2 * 3
     <<52, 32, 47, 32, 50>>,   \* 4 / 2
     <<53, 32, 37, 32, 50>>,   \* 5 % 2
     <<33, 49>>,   \* !1
     <<45, 49>>,   \* -1
     <<43, 49>>,   \* +1
     <<49>>,   \* 1
     <<120>>,   \* x
     <<40, 49, 41>>,   \* (1)
     <<39, 97, 39>>,   \* 'a'
     <<34, 115, 34>>,   \* "s"
     <<38, 120>>,   \* &x
     <<42, 38, 120>>,   \* *&x
     <<115, 113, 114, 116, 40, 52, 41>>    \* sqrt(4)
    }

\* int main(){int x;int a[2];<expression>;}
ExpressionSource(e) ==
    <<105, 110, 116, 32, 109, 97, 105, 110, 40, 41, 123, 105, 110, 116, 32, 120, 59, 105, 110, 116, 32, 97, 91, 50, 93, 59>>
       \o e \o <<59, 125>>

ExpressionSources == {ExpressionSource(e) : e \in Expressions}

\* gcc on one of the sources, before a.out is run.
CompileExpressions == nextPid = FirstPid /\ Gcc(ExpressionSources)

\* What the stack holds when the statement starts: nothing, as at the start
\* of main, or values an enclosing construct left there (a switch keeps its
\* subject on the stack while its body runs).
BaseValues == {70, 80}
Bases == {<< >>, <<Ins("LIT", 70)>>, <<Ins("LIT", 70), Ins("LIT", 80)>>}

\* a.out with the instructions that fill the stack in front; the code of an
\* expression statement holds no jump, so that it runs the same one or two
\* instructions further on.
OnAStack == {Exe(base \o exe.code, exe.data) : base \in Bases, exe \in Executables}

NextExpressions ==
    \/ CompileExpressions
    \/ CreateProcess(OnAStack, 1)
    \/ Step({1, RunCycles})

SpecExpressions == Init /\ [][NextExpressions]_vars

\* The stack the instructions in front of the program leave.
RECURSIVE BaseLength(_, _)
BaseLength(code, n) ==
    IF n < Len(code) /\ code[n + 1].op = "LIT" /\ code[n + 1].arg \in BaseValues
    THEN BaseLength(code, n + 1) ELSE n

BaseStack(vm) ==
    step(NewVM(vm.pid, SubSeq(vm.code, 1, BaseLength(vm.code, 0)), << >>, "discard"),
         BaseLength(vm.code, 0)).vm.stack

\* C29. Expression statements are stack-neutral: when the program that
\* holds one expression statement has run to its end, the evaluation stack
\* is what it was before the statement, whatever it held and whatever the
\* expression (assignment, array-element assignment, equality, relational
\* including <= and >=, additive, multiplicative, unary, primary).
ExpressionStatementsAreStackNeutral ==
    \A p \in DOMAIN vms :
       vms[p].state = "TERMINATED" => vms[p].stack = BaseStack(vms[p])

\* The same for the expressions that hold no <= and no >=.
OtherExpressionStatementsAreStackNeutral ==
    \A p \in DOMAIN vms :
       (/\ vms[p].state = "TERMINATED"
        /\ \A i \in 1..Len(vms[p].code) : vms[p].code[i].op \notin {"LE", "GE"})
       => vms[p].stack = BaseStack(vms[p])

\* An array-element assignment ran to the end on a stack of two values.
AssignedOnAStack ==
    \E p \in DOMAIN vms :
       /\ vms[p].state = "TERMINATED"
       /\ Len(BaseStack(vms[p])) = 2
       /\ \E i \in 1..Len(vms[p].code) : vms[p].code[i].op = "S_IND"

\* ---------------------------------------------------------------------
\* The preprocessor on texts of directive lines and one line of code.

\* The longest text, in lines.
MaxLines == 4

Line(kind, name, chars) == [kind |-> kind, name |-> name, chars |-> chars]

\* #define X, an indented #define Y 2, #ifdef X, #ifndef Y, #endif and x.
TextLines ==
    {Line("define", <<88>>, <<35, 100, 101, 102, 105, 110, 101, 32, 88>>),
     Line("define", <<89>>, <<32, 32, 35, 100, 101, 102, 105, 110, 101, 32, 89, 32, 50>>),
     Line("ifdef", <<88>>, <<35, 105, 102, 100, 101, 102, 32, 88>>),
     Line("ifndef", <<89>>, <<35, 105, 102, 110, 100, 101, 102, 32, 89>>),
     Line("endif", << >>, <<35, 101, 110, 100, 105, 102>>),
     Line("text", << >>, <<120>>)}

Texts == UNION {[1..n -> TextLines] : n \in 1..MaxLines}

TextSource(text) == Join([i \in 1..Len(text) |-> text[i].chars], 10)

\* compile(source) on the text's source; the observation lists the text, its
\* source, what the caller got and what preprocess handed to compile, which
\* has cleared the macros before.
CompileText(texts) ==
    LET Returned(text, r, pre) ==
            /\ compiler' = r.self
            /\ last' = [Observed("compile", 0) EXCEPT
                           !.list = <<text, TextSource(text), Outcome(r), pre>>]
    IN  /\ \E text \in texts :
             Returned(text, compile(compiler, TextSource(text)),
                      preprocess([compiler EXCEPT !.macros = << >>], TextSource(text)))
        /\ UNCHANGED <<vms, processes, nextPid, listeners, shell, aout>>

\* The first compile of the instance, and the one after "#define X".
NextPreprocess ==
    /\ \/ last.op = "none"
       \/ last.op = "compile" /\ last.list[1] = <<Line("define", <<88>>, <<35, 100, 101, 102, 105, 110, 101, 32, 88>>)>>
    /\ CompileText(Texts)

SpecPreprocess == Init /\ [][NextPreprocess]_vars

AllTrue(frames) == \A k \in 1..Len(frames) : frames[k]

\* The frames open and the macros recorded after the first n lines of a
\* text: a #define records its macro when every frame is true; #ifdef and
\* #ifndef open a frame, true when every frame is true and the macro is
\* (is not) recorded; #endif closes the innermost frame.
RECURSIVE Scan(_, _)
Scan(text, n) ==
    IF n = 0 THEN [frames |-> << >>, macros |-> {}]
    ELSE LET After(prev) ==
                 CASE text[n].kind = "define" ->
                        [prev EXCEPT !.macros =
                            IF AllTrue(prev.frames) THEN @ \cup {text[n].name} ELSE @]
                   [] text[n].kind = "ifdef" ->
                        [prev EXCEPT !.frames =
                            @ \o <<AllTrue(prev.frames) /\ text[n].name \in prev.macros>>]
                   [] text[n].kind = "ifndef" ->
                        [prev EXCEPT !.frames =
                            @ \o <<AllTrue(prev.frames) /\ text[n].name \notin prev.macros>>]
                   [] text[n].kind = "endif" ->
                        [prev EXCEPT !.frames =
                            IF @ = << >> THEN @ ELSE SubSeq(@, 1, Len(@) - 1)]
                   [] OTHER -> prev
         IN  After(Scan(text, n - 1))

\* The lines preprocess should hand back: a line of code inside true frames
\* as it is, every other line blank.
Emitted(text) ==
    [i \in 1..Len(text) |->
        IF text[i].kind = "text" /\ AllTrue(Scan(text, i - 1).frames)
        THEN text[i].chars ELSE << >>]

\* C30 for the outcome pre of preprocess on a text, r what compile returned.
Preprocessed(text, pre, r) ==
    /\ DOMAIN pre.self.macros = Scan(text, Len(text)).macros
    /\ pre.stack = Scan(text, Len(text)).frames
    /\ IF Scan(text, Len(text)).frames # << >>
       THEN /\ pre.err.thrown
            /\ r.err = pre.err
       ELSE /\ ~pre.err.thrown
            /\ SplitOn(pre.out, 10) = Emitted(text)

\* C30. The preprocessor's emission stack decides every line: the output
\* has as many lines as the input; every directive line is blank in it; a
\* line of code is copied unchanged when every enclosing #ifdef/#ifndef frame
\* is true and is blank otherwise; a conditional opened inside a suppressed
\* region pushes false whatever its condition; a #define inside a suppressed
\* region records no macro; a conditional still open at the end of the input
\* is a fatal error, which compile throws.
EmissionStackDecidesEveryLine ==
    [][last'.op = "compile" =>
          Preprocessed(last'.list[1], last'.list[4], last'.list[3])]_vars

\* A #define inside a false #ifdef recorded nothing, and the line after the
\* #endif was copied.
SuppressedDefine ==
    /\ last.op = "compile"
    /\ Len(last.list[1]) = 4
    /\ last.list[2] = <<35, 105, 102, 100, 101, 102, 32, 88, 10, 32, 32, 35, 100, 101, 102, 105, 110, 101, 32, 89, 32, 50, 10, 35, 101, 110, 100, 105, 102, 10, 120>>
    /\ last.list[4].self.macros = << >>
    /\ last.list[4].out = <<10, 10, 10, 120>>

\* ---------------------------------------------------------------------
\* Pointers: assignment through a pointer, and what the compiler has for
\* array elements.

\* int main(){int x;int *p;p = &x;*p = 5;}
SrcPointerStore ==
    <<105, 110, 116, 32, 109, 97, 105, 110, 40, 41, 123, 105, 110, 116, 32, 120, 59,
      105, 110, 116, 32, 42, 112, 59, 112, 32, 61, 32, 38, 120, 59, 42, 112, 32, 61,
      32, 53, 59, 125>>

\* int main(){int x;int *p;p = &x;*p = 2 + 3;printf("%d", x);}
SrcPointerStoreExpr ==
    <<105, 110, 116, 32, 109, 97, 105, 110, 40, 41, 123, 105, 110, 116, 32, 120, 59,
      105, 110, 116, 32, 42, 112, 59, 112, 32, 61, 32, 38, 120, 59, 42, 112, 32, 61,
      32, 50, 32, 43, 32, 51, 59, 112, 114, 105, 110, 116, 102, 40, 34, 37, 100, 34,
      44, 32, 120, 41, 59, 125>>

\* int main(){int x;int *p;x = 5;p = &x;x = *p;printf("%d", x);}
SrcPointerLoad ==
    <<105, 110, 116, 32, 109, 97, 105, 110, 40, 41, 123, 105, 110, 116, 32, 120, 59,
      105, 110, 116, 32, 42, 112, 59, 120, 32, 61, 32, 53, 59, 112, 32, 61, 32, 38,
      120, 59, 120, 32, 61, 32, 42, 112, 59, 112, 114, 105, 110, 116, 102, 40, 34, 37,
      100, 34, 44, 32, 120, 41, 59, 125>>

\* int main(){int x;int *p;p = &x;*p;}
SrcPointerRead ==
    <<105, 110, 116, 32, 109, 97, 105, 110, 40, 41, 123, 105, 110, 116, 32, 120, 59,
      105, 110, 116, 32, 42, 112, 59, 112, 32, 61, 32, 38, 120, 59, 42, 112, 59, 125>>

\* int main(){int a[2];a[1] = 5;printf("%d", a[1]);}
SrcElementStore ==
    <<105, 110, 116, 32, 109, 97, 105, 110, 40, 41, 123, 105, 110, 116, 32, 97, 91,
      50, 93, 59, 97, 91, 49, 93, 32, 61, 32, 53, 59, 112, 114, 105, 110, 116, 102,
      40, 34, 37, 100, 34, 44, 32, 97, 91, 49, 93, 41, 59, 125>>

PointerStoreSources == {SrcPointerStore, SrcPointerStoreExpr}

PointerSources ==
    PointerStoreSources \cup {SrcPointerLoad, SrcPointerRead, SrcElementStore}

\* gcc on one of the sources, before a.out is run.
CompilePointers == nextPid = FirstPid /\ Gcc(PointerSources)

NextPointers ==
    \/ CompilePointers
    \/ CreateProcess(Executables, 1)
    \/ Step({1, MaxCycles, RunCycles})

SpecPointers == Init /\ [][NextPointers]_vars

\* C31. Assignment through a pointer is supported: gcc on a program that
\* holds '*p = expr;' for a declared pointer p compiles without error, to
\* bytecode that stores with S_IND, and a.out is written.
PointerAssignmentCompiles ==
    [][(last'.op = "gcc" /\ last'.list[1] \in PointerStoreSources) =>
          /\ ~last'.list[2].err.thrown
          /\ \E i \in 1..Len(last'.list[2].bytecode) : last'.list[2].bytecode[i].op = "S_IND"
          /\ aout'.exists /\ aout'.bytecode = last'.list[2].bytecode]_vars

\* ---------------------------------------------------------------------
\* The edges of the memory: loads, stores and byte writes at the first and
\* the last addresses.

EdgeAddresses == {0, 65527, 65528, 65529, 65531, 65532, 65533, 65536}

\* "%s" and its terminating 0
FmtS == <<37, 115, 0>>

\* *a; *a = 7; for an int and for a double at every edge, and scanf("%s", a)
\* at the last bytes.
EdgePrograms ==
    {Exe(<<Ins("LIT", a), Ins(op, 0), Ins("HALT", 0)>>, << >>) :
        a \in EdgeAddresses, op \in {"L_IND", "L_IND64"}}
    \cup {Exe(<<Ins("LIT", a), Ins("LIT", 7), Ins(op, 0), Ins("HALT", 0)>>, << >>) :
             a \in EdgeAddresses, op \in {"S_IND", "S_IND64"}}
    \cup {Exe(<<Ins("LIT", a), Ins("LIT", 0), Ins("SCANF", 1), Ins("HALT", 0)>>, FmtS) :
             a \in {65533, 65534, 65535, 65536}}

NextEdges ==
    \/ CreateProcess(EdgePrograms, 1)
    \/ Step({1, MaxCycles})
    \/ ResolveInput(Lines)

SpecEdges == Init /\ [][NextEdges]_vars

\* The next instruction loads or stores width bytes that all lie in the memory.
AccessInRange(vm) ==
    /\ AtInstruction(vm)
    /\ NextInstruction(vm).op \in {"L_IND", "S_IND", "L_IND64", "S_IND64"}
    /\ IsNum(AccessOf(vm).addr)
    /\ AccessOf(vm).addr.v >= 0
    /\ AccessOf(vm).addr.v + AccessOf(vm).width <= MemSize

\* The process waits in scanf("%s", a) and the token of the line, with its
\* terminating 0, fits between a and the end of the memory.
StringInRange(vm, line) ==
    /\ vm.state = "WAITING_INPUT"
    /\ vm.scanContext.fmt = <<37, 115>>
    /\ Len(vm.scanContext.args) = 1
    /\ IsNum(vm.scanContext.args[1])
    /\ Trim(line) # << >>
    /\ vm.scanContext.args[1].v >= 0
    /\ vm.scanContext.args[1].v + Len(Tokens(line)[1]) + 1 <= MemSize

\* C32. Bounds checks are exact: a 32-bit load or store at a succeeds
\* whenever 0 <= a and a + 4 <= 65536 and a 64-bit one whenever 0 <= a and
\* a + 8 <= 65536 (the step ends RUNNING, writes nothing and returns true),
\* and the byte writes of a scanned string succeed when every byte written
\* lies below 65536 (resolveInput does not throw).
BoundsChecksAreExact ==
    [][\A p \in DOMAIN vms :
          /\ ( /\ last'.op = "step" /\ last'.pid = p /\ last'.cycles = 1
               /\ vms[p].state = "RUNNING"
               /\ AccessInRange(vms[p]) )
             => /\ vms'[p].state = "RUNNING"
                /\ vms'[p].out = vms[p].out
                /\ last'.ret
          /\ ( /\ last'.op = "resolveInput" /\ last'.pid = p
               /\ StringInRange(vms[p], last'.list[1]) )
             => /\ ~last'.raised
                /\ vms'[p].state = "RUNNING"]_vars

\* The same without the last slot of each width: a + 4 < 65536, a + 8 < 65536.
BoundsChecksButTheLastSlot ==
    [][\A p \in DOMAIN vms :
          /\ ( /\ last'.op = "step" /\ last'.pid = p /\ last'.cycles = 1
               /\ vms[p].state = "RUNNING"
               /\ AccessInRange(vms[p])
               /\ AccessOf(vms[p]).addr.v + AccessOf(vms[p]).width < MemSize )
             => /\ vms'[p].state = "RUNNING"
                /\ vms'[p].out = vms[p].out
                /\ last'.ret
          /\ ( /\ last'.op = "resolveInput" /\ last'.pid = p
               /\ StringInRange(vms[p], last'.list[1]) )
             => /\ ~last'.raised
                /\ vms'[p].state = "RUNNING"]_vars

\* ---------------------------------------------------------------------
\* Chunks: one call of step against the same budget handed over in two calls.

\* The largest budget of one call of step.
MaxChunk == 4

NextChunks ==
    \/ CreateProcess(AllPrograms, 1)
    \/ Step(1..MaxChunk)
    \/ ResolveInput(Lines)

SpecChunks == Init /\ [][NextChunks]_vars

\* step(a) and then step(b) on what it left: the VM after both, what the
\* second call returned and the instructions executed by the two.
Chained(vm, a, b) ==
    LET Second(first, r) ==
            [vm |-> r.vm, ret |-> r.ret, executed |-> first.executed + r.executed]
        First(first) == Second(first, step(first.vm, b))
    IN  First(step(vm, a))

\* C33 as stated: two runs that have executed the same number of
\* instructions have the same state, pc, stack, memory, heap pointer and
\* output; here the run that took the step observed and the run that takes
\* any other budget from the same point.
ChunkingIsUnobservable ==
    [][\A p \in DOMAIN vms :
          (last'.op = "step" /\ last'.pid = p) =>
             \A b \in 1..MaxChunk :
                step(vms[p], b).executed = last'.executed => step(vms[p], b).vm = vms'[p]]_vars

\* C33: a budget handed to step in one call or split over two calls leaves
\* the same VM (state, pc, stack, memory, heap pointer, output), executes the
\* same number of instructions and returns the same; two runs that have
\* executed the same number of instructions agree on everything but,
\* possibly, the state.
ChunkingAddsUp ==
    [][\A p \in DOMAIN vms :
          (last'.op = "step" /\ last'.pid = p) =>
             /\ \A a \in 1..(last'.cycles - 1) :
                   Chained(vms[p], a, last'.cycles - a)
                      = [vm |-> vms'[p], ret |-> last'.ret, executed |-> last'.executed]
             /\ \A b \in 1..MaxChunk :
                   step(vms[p], b).executed = last'.executed =>
                      [step(vms[p], b).vm EXCEPT !.state = vms'[p].state] = vms'[p]]_vars

\* A process that was handed two lines at its scanf has been stepped with a
\* budget of three and has stored both.
ChunkAfterInput ==
    \E p \in DOMAIN vms :
       /\ last.op = "step" /\ last.pid = p
       /\ last.cycles = 3
       /\ last.executed >= 1
       /\ vms[p].code = ProgScanTwo.code
       /\ vms[p].pc > 8

\* ---------------------------------------------------------------------
\* The pump of a process, checked under SpecShell.

\* The runChunk callbacks that are pending for a process.
Pumps(pid) == IF BagIn(pid, shell.timers) THEN CopiesIn(pid, shell.timers) ELSE 0

\* C34: at most one runChunk callback is pending for a process at any time,
\* and none while the process is WAITING_INPUT, whatever launches, lines,
\* kills and timer callbacks came before.
OnePumpPerProcess ==
    \A pid \in DOMAIN vms :
        /\ Pumps(pid) <= 1
        /\ vms[pid].state = "WAITING_INPUT" => Pumps(pid) = 0

\* A process that waited with no pump was resumed by a line and has one
\* pump pending, next to the pump of a process launched before it.
PumpResumedByALine ==
    /\ last.op = "handleInput" /\ last.ret
    /\ Pumps(last.pid) = 1
    /\ vms[last.pid].state = "RUNNING"
    /\ \E q \in DOMAIN vms : q # last.pid /\ vms[q].state = "RUNNING" /\ Pumps(q) = 1

\* The processes that have not ended; under SpecShell each was launched by
\* the shell.
Live == {p \in DOMAIN vms : vms[p].state # "TERMINATED"}

\* C35: while a process launched by the shell is RUNNING or WAITING_INPUT a
\* line handed to the shell launches no second process: at most one process
\* of the shell has not ended, and foregroundPID, while it is set, names it.
ShellRunsOneProgram ==
    /\ Cardinality(Live) <= 1
    /\ (Live # {} /\ shell.foregroundPID # NoPid) => shell.foregroundPID \in Live
    /\ (last.op = "handleInput" /\ last.list[1] = "launched") => Live \subseteq {last.pid}

\* ---------------------------------------------------------------------
\* Subscribers that list from inside their callback, checked under Spec.

\* The calls of the registry that may notify.
NotifyingCalls ==
    {"createProcess", "registerSystemProcess", "killProcess", "killProcessByWindow",
     "getProcessList"}

\* C36: with subscribers that call getProcessList from inside their
\* callback, a list returns after at most one round of callbacks and a
\* create, register or kill after at most two: the sweep removes every
\* TERMINATED entry before it notifies, so the sweeps nested in that
\* notification remove nothing, and the registry holds no TERMINATED entry
\* when a call that notified a listing subscriber returns.
ReentrantListingIsBounded ==
    [][last'.op \in NotifyingCalls =>
          /\ last'.muts <= (IF last'.op = "getProcessList" THEN 1 ELSE 2)
          /\ Len(last'.calls) = last'.muts * Len(listeners)
          /\ (ListingSubscribed /\ last'.muts > 0) =>
                \A p \in DOMAIN processes' : vms'[p].state # "TERMINATED"]_vars

\* A create notified two listing subscribers while an entry was dead: the
\* first callback's list swept it and notified again from inside.
SweptInsideANotification ==
    /\ last.op = "createProcess"
    /\ last.muts = 2
    /\ listeners = <<"update", "update">>
    /\ Len(last.calls) = 4
    /\ Retired # {}
    /\ DOMAIN processes = {last.pid}

\* The sequence ls without its j-th entry.
Removed(ls, j) == SubSeq(ls, 1, j - 1) \o SubSeq(ls, j + 1, Len(ls))

\* C37: calling the function a subscribe(cb) returned removes exactly one
\* subscription, the one it was returned for; every other subscription, a
\* second subscription of the same callback included, stays subscribed and is
\* notified of later changes.
UnsubscribeRemovesOne ==
    [][last'.op = "unsubscribe" =>
          \E j \in 1..Len(listeners) : listeners' = Removed(listeners, j)]_vars

\* C38: every VM that createProcess or registerSystemProcess made and the
\* registry holds no more is TERMINATED; every RUNNING or WAITING_INPUT VM is
\* what getProcess returns for its pid.
NoLiveProcessOrphaned ==
    /\ \A p \in Retired : vms[p].state = "TERMINATED"
    /\ \A p \in DOMAIN vms :
          vms[p].state \in {"RUNNING", "WAITING_INPUT"} =>
             getProcess(processes, vms, p) = {vms[p]}

\* A process that was killed while it waited at its scanf was handed a line
\* after the kill, next to a process that is registered and has not ended.
LineAfterTheKill ==
    /\ last.op = "resolveInput"
    /\ last.pid \in Retired
    /\ vms[last.pid].scanContext.set
    /\ \E q \in DOMAIN processes : vms[q].state # "TERMINATED"

\* ---------------------------------------------------------------------
\* The pump under fair timers.

\* The pids of the two processes the shell launches.
ShellPids == {FirstPid, FirstPid + 1}

\* Two launches, so that the pumps of two processes interleave.
NextPump ==
    \/ HandleInputOf(2)
    \/ RunChunk
    \/ KillProcess

\* setTimeout(runChunk, 0): the event loop runs every timer that is pending.
SpecPump ==
    /\ Init
    /\ [][NextPump]_vars
    /\ \A pid \in ShellPids : WF_vars(RunChunkOf(pid))

\* The program executes finitely many instructions and no SCANF.
Halting(code) == code = ProgBusy.code

\* C39: with fair timers a process launched with "./name" whose program
\* executes finitely many instructions and no SCANF is eventually TERMINATED
\* with no runChunk pending, and the chunk in which it ends leaves
\* foregroundPID null; a process that waits at a SCANF has no runChunk pending
\* and runs on only in the handleInput that hands it a line.
HaltingProgramFreesTheTerminal ==
    /\ \A p \in ShellPids :
          (p \in DOMAIN vms /\ Halting(vms[p].code))
             ~> (p \in DOMAIN vms /\ vms[p].state = "TERMINATED" /\ Pumps(p) = 0)
    /\ [][\A p \in DOMAIN vms' :
             /\ ( /\ p \in DOMAIN vms => vms[p].state # "TERMINATED"
                  /\ vms'[p].state = "TERMINATED"
                  /\ last'.op \in {"runChunk", "handleInput"} )
                => (shell'.foregroundPID = NoPid /\ Pumps(p)' = 0)
             /\ ( /\ p \in DOMAIN vms
                  /\ vms[p].state = "WAITING_INPUT"
                  /\ (vms'[p].pc # vms[p].pc \/ vms'[p].state = "RUNNING" \/ Pumps(p)' > 0) )
                => (Pumps(p) = 0 /\ last'.op = "handleInput" /\ last'.ret /\ last'.pid = p)]_vars

\* The last chunk of a program that computed for several chunks has run: the
\* process has ended, no timer is pending and the terminal is free.
PumpRanToTheEnd ==
    /\ last.op = "runChunk"
    /\ Halting(vms[last.pid].code)
    /\ vms[last.pid].state = "TERMINATED"
    /\ vms[last.pid].pc = Len(ProgBusy.code)
    /\ shell.foregroundPID = NoPid
    /\ shell.timers = EmptyBag

ReservedPrograms ==
    {Exe(<<Ins("LIT", a), Ins(op, arg), Ins("LIT", 7), Ins("HALT", 0)>>, << >>) :
        a \in CompareValues, op \in ReservedOps, arg \in {0, 3}}

\* One process that runs over a reserved opcode.
NextReserved ==
    \/ CreateProcess(ReservedPrograms, 1)
    \/ Step({1, MaxCycles})

SpecReserved == Init /\ [][NextReserved]_vars

\* C22. An opcode the VM has no handler for (FREE, CALL, RET, GLOAD, GSTORE,
\* FRAME, ITOF) is a no-op: a step of one cycle on a RUNNING process whose
\* next instruction is one of them returns true, advances pc by one and
\* leaves the evaluation stack, memory, heap pointer, frame pointer, state
\* and everything written to stdout as they were; nothing is reported.
ReservedOpcodesDoNothing ==
    [][\A p \in DOMAIN vms :
          (/\ last'.op = "step" /\ last'.pid = p /\ last'.cycles = 1
           /\ vms[p].state = "RUNNING"
           /\ AtInstruction(vms[p])
           /\ NextInstruction(vms[p]).op \in ReservedOps)
          => /\ vms'[p] = [vms[p] EXCEPT !.pc = @ + 1]
             /\ last'.ret]_vars

\* A process has stepped over a reserved opcode with a value on its stack.
SteppedOverReserved ==
    /\ last.op = "step" /\ last.cycles = 1
    /\ last.pid \in DOMAIN vms
    /\ vms[last.pid].pc = 2
    /\ vms[last.pid].code[2].op \in ReservedOps
    /\ vms[last.pid].state = "RUNNING"
    /\ Len(vms[last.pid].stack) = 1

\* ---------------------------------------------------------------------
\* The empty source among sources that compile and sources that do not.
EmptySources == {SrcEmpty, SrcReturn, SrcUndefined, SrcQuote, SrcIfdef}

\* The compiler and one process made from a.out, run with small budgets.
NextEmpty ==
    \/ Gcc(EmptySources)
    \/ CreateProcess(Executables, 1)
    \/ Step({1, MaxCycles, RunCycles})

SpecEmpty == Init /\ [][NextEmpty]_vars

\* C23. The empty program terminates at once: compile of the empty source,
\* whatever was compiled before, returns empty bytecode, empty data and no
\* warnings; and a step with a budget of at least 1 on a RUNNING process
\* made from empty bytecode returns false, leaves the process TERMINATED
\* and writes nothing to stdout.
EmptyProgramTerminatesAtOnce ==
    [][/\ (last'.op = "gcc" /\ last'.list[1] = SrcEmpty) =>
             last'.list[2] = [err |-> NoError, bytecode |-> << >>, data |-> << >>,
                              warnings |-> << >>]
       /\ \A p \in DOMAIN vms :
             (/\ last'.op = "step" /\ last'.pid = p /\ last'.cycles >= 1
              /\ vms[p].code = << >> /\ vms[p].state = "RUNNING")
             => /\ vms'[p].state = "TERMINATED"
                /\ ~last'.ret
                /\ vms'[p].out = vms[p].out]_vars

\* The a.out of the empty source was run with a budget of 1 and has ended.
EmptyExecutableEnded ==
    /\ aout.exists /\ aout.bytecode = << >>
    /\ last.op = "step" /\ last.cycles = 1
    /\ last.pid \in DOMAIN vms
    /\ vms[last.pid].code = << >>
    /\ vms[last.pid].state = "TERMINATED"

CompileDependsOnSourceOnly ==
    last.op = "gcc" =>
        last.list[2] = Outcome(compile(FreshCompiler, last.list[1]))

\* ---------------------------------------------------------------------
\* C20. Every compile-time failure, of the preprocessor, the lexer or the
\* parser, is an error whose message reads 'Line <n>: <message>', n being a
\* 1-based line number of the source being compiled.
LinesOf(source) == Len(SplitOn(source, 10))

ErrorsCarryALine ==
    (last.op = "gcc" /\ last.list[2].err.thrown) =>
        /\ last.list[2].err.kind = "Line"
        /\ last.list[2].err.line \in 1..LinesOf(last.list[1])

\* ---------------------------------------------------------------------
\* What a process sent to its terminal, write after write.
RECURSIVE Printed(_)
Printed(out) ==
    IF out = << >> THEN << >> ELSE Head(out).text \o Printed(Tail(out))

\* The processes that ran the program gcc makes of a source to its end.
Finished(source) ==
    LET r == compile(FreshCompiler, source)
    IN  {p \in DOMAIN vms : /\ ~r.err.thrown
                            /\ vms[p].code = r.bytecode
                            /\ vms[p].state = "TERMINATED"}

\* C17. A for loop whose body holds unbraced single-statement ifs guarding
\* continue and break compiles and runs with C meaning: the program of
\* scenario 6 compiles without error and, run to its end, has written
\* exactly 013.
UnbracedIfsInForLoop ==
    /\ (last.op = "gcc" /\ last.list[1] = SrcFor) => ~last.list[2].err.thrown
    /\ \A p \in Finished(SrcFor) : Printed(vms[p].out) = <<48, 49, 51>>

\* C16. A compiled switch selects by value with fall-through and leaves the
\* evaluation stack as deep as it was: the program of scenario 7, run to
\* its end, has written exactly bc, and case -1 is entered by subject -1.
SwitchSelectsWithFallThrough ==
    /\ \A p \in Finished(SrcSwitch) :
          /\ Printed(vms[p].out) = <<98, 99>>
          /\ vms[p].stack = << >>
    /\ \A p \in Finished(SrcSwitchNegative) :
          /\ Printed(vms[p].out) = <<110>>
          /\ vms[p].stack = << >>

====
